---- MODULE Spec2Model ----
(***************************************************************************)
(* A model of the HTML -> Markdown conversion core of markdown-ify         *)
(* (src/src/services/markdownConversionService.ts and                      *)
(* src/src/services/complexStructureService.ts).                           *)
(*                                                                         *)
(* A Markdown string is a sequence of one-character strings.  An HTML      *)
(* string is a sequence of lexemes: a character, an opening tag with its   *)
(* attributes, or a closing tag.  Chars(s) is the HTML string as the       *)
(* text-level regular expressions of the code see it: a tag is one         *)
(* character that is neither white space nor one of the characters they    *)
(* name.                                                                   *)
(***************************************************************************)
EXTENDS Integers, Sequences, FiniteSets, TLC

(***************************************************************************)
(* Bounds of the model.                                                    *)
(***************************************************************************)
\* longest Markdown string handed to postProcessMarkdown on its own
MaxLen == 4
\* calls of convertToMarkdown made on one service
MaxCalls == 1
\* child nodes a paragraph can hold before it counts as full: the copies
\* of the children of a dd that the model tells apart
MaxCopies == 3
\* rows of a table handed to normalizeTableStructure on its own
MaxRows == 4

(***************************************************************************)
(* Characters and elementary string operations (JavaScript semantics).     *)
(***************************************************************************)
\* \s of a JavaScript regular expression, and what String.trim removes
Ws == {" ", "\t", "\n", "\r"}
\* the line terminators: what "." does not match and what "$" with /m stops at
LineTerm == {"\n", "\r"}
Digits == <<"0", "1", "2", "3", "4", "5", "6", "7", "8", "9">>
DigitSet == {Digits[i] : i \in 1..10}
UpperCase == <<"A", "B", "C", "D", "E", "F", "G", "H", "I", "J", "K", "L", "M",
               "N", "O", "P", "Q", "R", "S", "T", "U", "V", "W", "X", "Y", "Z">>
LowerCase == <<"a", "b", "c", "d", "e", "f", "g", "h", "i", "j", "k", "l", "m",
               "n", "o", "p", "q", "r", "s", "t", "u", "v", "w", "x", "y", "z">>
\* [a-zA-Z0-9]
AlNum == {UpperCase[i] : i \in 1..26} \cup {LowerCase[i] : i \in 1..26} \cup DigitSet

\* the statements of a method run one after the other: the value of one is
\* computed before the statements after it, rest, start
Then(value, rest(_)) == IF value = value THEN rest(value) ELSE rest(value)

Min(a, b) == IF a < b THEN a ELSE b
Max(a, b) == IF a > b THEN a ELSE b

\* String.prototype.toLowerCase on one character
ToLowerChar(c) ==
    IF \E i \in 1..26 : UpperCase[i] = c
    THEN LowerCase[CHOOSE i \in 1..26 : UpperCase[i] = c]
    ELSE c
ToLower(s) == [i \in 1..Len(s) |-> ToLowerChar(s[i])]

\* s.substring(i-1, j) with 1-based inclusive bounds, empty when j < i
Sub(s, i, j) == IF j < i THEN <<>> ELSE SubSeq(s, i, j)

\* the least and the greatest element of a non-empty set of integers
Least(S) == CHOOSE x \in S : \A y \in S : x <= y
Greatest(S) == CHOOSE x \in S : \A y \in S : x >= y

\* the number of consecutive characters of s from position i on that are in C
RunIn(s, i, C) ==
    LET stops == {j \in i..Len(s) : s[j] \notin C}
    IN  IF i > Len(s) THEN 0
        ELSE IF stops = {} THEN Len(s) - i + 1
        ELSE Least(stops) - i

\* the number of consecutive characters of s from position i on that are not in C
RunNotIn(s, i, C) ==
    LET stops == {j \in i..Len(s) : s[j] \in C}
    IN  IF i > Len(s) THEN 0
        ELSE IF stops = {} THEN Len(s) - i + 1
        ELSE Least(stops) - i

\* the number of characters of C at the end of s[1..j]
RunBack(s, j, C) ==
    LET stops == {k \in 1..j : s[k] \notin C}
    IN  IF j < 1 THEN 0
        ELSE IF stops = {} THEN j
        ELSE j - Greatest(stops)

\* whether p occurs in s at position i
StartsAt(s, i, p) ==
    /\ i >= 1
    /\ i + Len(p) - 1 <= Len(s)
    /\ \A k \in 1..Len(p) : s[i + k - 1] = p[k]

\* s.indexOf(p, from) with 1-based positions; 0 when p does not occur
IndexFrom(s, p, i) ==
    LET found == {j \in i..Len(s) - Len(p) + 1 : StartsAt(s, j, p)}
    IN  IF found = {} THEN 0 ELSE Least(found)
IndexOf(s, p) == IndexFrom(s, p, 1)
Contains(s, p) == IndexOf(s, p) # 0

\* the number of (possibly overlapping) occurrences of p in s
Occurrences(s, p) == Cardinality({i \in 1..Len(s) : StartsAt(s, i, p)})

\* String.prototype.trim
Trim(s) ==
    LET a == RunIn(s, 1, Ws)
        b == RunBack(s, Len(s), Ws)
    IN  IF a = Len(s) THEN <<>> ELSE Sub(s, a + 1, Len(s) - b)

\* n copies of the character c
Repeat(c, n) == [i \in 1..n |-> c]

\* Number.prototype.toString (decimal) of a natural number
RECURSIVE ToDigits(_)
ToDigits(n) ==
    IF n < 10 THEN <<Digits[n + 1]>>
    ELSE ToDigits(n \div 10) \o <<Digits[(n % 10) + 1]>>

DigitValue(c) == (CHOOSE i \in 1..10 : Digits[i] = c) - 1

\* parseInt of a string of decimal digits
RECURSIVE ParseDigits(_, _)
ParseDigits(s, acc) ==
    IF s = <<>> THEN acc
    ELSE ParseDigits(Tail(s), acc * 10 + DigitValue(Head(s)))
ParseInt(s) == ParseDigits(s, 0)

(***************************************************************************)
(* String.prototype.replace with a global regular expression: a match      *)
(* table m gives, for every position of s, the length of the match that    *)
(* starts there (0: none) and its replacement.  Matches are taken leftmost *)
(* first and do not overlap; every match is computed on the original s.    *)
(***************************************************************************)
NoMatch == [len |-> 0, rep |-> <<>>]

\* what follows position i - 1 of the result: the text up to the next match,
\* its replacement, and the same from the end of that match
RECURSIVE Rebuild(_, _, _)
Rebuild(s, m, i) ==
    LET matches == {j \in i..Len(s) : m[j].len > 0}
    IN  IF matches = {} THEN Sub(s, i, Len(s))
        ELSE LET j == Least(matches)
             IN  Sub(s, i, j - 1) \o m[j].rep \o Rebuild(s, m, j + m[j].len)

ReplaceAll(s, m) == Rebuild(s, m, 1)

(***************************************************************************)
(* postProcessMarkdown: the chain of regular-expression replacements of    *)
(* markdownConversionService.ts lines 770-836, one match operator per      *)
(* replace call, in the order of the code.                                 *)
(***************************************************************************)
\* the backquote character, which a TLA+ string cannot hold
Bq == "<bq>"
Fence == <<Bq, Bq, Bq>>
ListMarkers == {"-", "*", "+"}

\* .replace(/\r\n/g, '\n')
MatchCrLf(s, i) ==
    IF StartsAt(s, i, <<"\r", "\n">>) THEN [len |-> 2, rep |-> <<"\n">>] ELSE NoMatch
NormalizeLineEndings(s) == ReplaceAll(s, [i \in 1..Len(s) |-> MatchCrLf(s, i)])

\* .replace(/\n{3,}/g, '\n\n')
MatchBlankRun(s, i) ==
    LET r == RunIn(s, i, {"\n"})
    IN  IF r >= 3 THEN [len |-> r, rep |-> <<"\n", "\n">>] ELSE NoMatch
CollapseLineBreaks(s) == ReplaceAll(s, [i \in 1..Len(s) |-> MatchBlankRun(s, i)])

\* .replace(/\n\s*[-*+]\s/g, '\n- ')
MatchListItem(s, i) ==
    LET w == RunIn(s, i + 1, Ws)
        j == i + 1 + w
    IN  IF s[i] = "\n" /\ j + 1 <= Len(s) /\ s[j] \in ListMarkers /\ s[j + 1] \in Ws
        THEN [len |-> w + 3, rep |-> <<"\n", "-", " ">>]
        ELSE NoMatch
FixListItemSpacing(s) == ReplaceAll(s, [i \in 1..Len(s) |-> MatchListItem(s, i)])

\* .replace(/(\n(fence)[^\n]*\n)(.*?)(\n(fence)\s*)/g, '\n$1$2$3\n')
MatchCodeBlock(s, i) ==
    LET k == i + 4 + RunNotIn(s, i + 4, {"\n"})    \* the newline that ends $1
        m == k + 1 + RunNotIn(s, k + 1, LineTerm)  \* the newline that starts $3
        e == m + 3 + RunIn(s, m + 4, Ws)           \* the last character of $3
    IN  IF /\ s[i] = "\n" /\ StartsAt(s, i + 1, Fence)
           /\ k <= Len(s)
           /\ m <= Len(s) /\ s[m] = "\n" /\ StartsAt(s, m + 1, Fence)
        THEN [len |-> e - i + 1, rep |-> <<"\n">> \o Sub(s, i, e) \o <<"\n">>]
        ELSE NoMatch
CodeBlockSpacing(s) == ReplaceAll(s, [i \in 1..Len(s) |-> MatchCodeBlock(s, i)])

\* .replace(/\n(#{1,6})\s*([^\n]+)/g, '\n$1 $2'): the marker and the white
\* space are greedy and give characters back until one character that is
\* not a newline is left for $2
MatchHeading(s, i) ==
    LET hmax == Min(RunIn(s, i + 1, {"#"}), 6)
        Ok(h, w) == /\ w <= RunIn(s, i + 1 + h, Ws)
                    /\ i + 1 + h + w <= Len(s)
                    /\ s[i + 1 + h + w] # "\n"
        cands == {p \in (1..hmax) \X (0..Len(s)) : Ok(p[1], p[2])}
        best == CHOOSE p \in cands :
                   \A o \in cands : p[1] > o[1] \/ (p[1] = o[1] /\ p[2] >= o[2])
        q == i + 1 + best[1] + best[2]
        e == RunNotIn(s, q, {"\n"})
    IN  IF s[i] = "\n" /\ cands # {}
        THEN [len |-> q + e - i,
              rep |-> <<"\n">> \o Repeat("#", best[1]) \o <<" ">> \o Sub(s, q, q + e - 1)]
        ELSE NoMatch
FixHeadingSpacing(s) == ReplaceAll(s, [i \in 1..Len(s) |-> MatchHeading(s, i)])

\* .replace(/[ \t]+$/gm, '')
MatchTrailingWs(s, i) ==
    LET r == RunIn(s, i, {" ", "\t"})
    IN  IF r >= 1 /\ (i + r > Len(s) \/ s[i + r] \in LineTerm)
        THEN [len |-> r, rep |-> <<>>]
        ELSE NoMatch
TrimTrailingWhitespace(s) == ReplaceAll(s, [i \in 1..Len(s) |-> MatchTrailingWs(s, i)])

\* .replace(/\|[ \t]+/g, '| ')
MatchPipeLeft(s, i) ==
    LET r == RunIn(s, i + 1, {" ", "\t"})
    IN  IF s[i] = "|" /\ r >= 1 THEN [len |-> r + 1, rep |-> <<"|", " ">>] ELSE NoMatch
TablePipeLeft(s) == ReplaceAll(s, [i \in 1..Len(s) |-> MatchPipeLeft(s, i)])

\* .replace(/[ \t]+\|/g, ' |')
MatchPipeRight(s, i) ==
    LET r == RunIn(s, i, {" ", "\t"})
    IN  IF r >= 1 /\ i + r <= Len(s) /\ s[i + r] = "|"
        THEN [len |-> r + 1, rep |-> <<" ", "|">>]
        ELSE NoMatch
TablePipeRight(s) == ReplaceAll(s, [i \in 1..Len(s) |-> MatchPipeRight(s, i)])

\* .replace(/\n\s{2,}[-*+]\s/g, match => '\n' + ' '.repeat(floor((match.length - 3) / 2) * 2) + '- ')
MatchNestedItem(s, i) ==
    LET w == RunIn(s, i + 1, Ws)
        j == i + 1 + w
        indent == (((w + 3) - 3) \div 2) * 2
    IN  IF /\ s[i] = "\n" /\ w >= 2
           /\ j + 1 <= Len(s) /\ s[j] \in ListMarkers /\ s[j + 1] \in Ws
        THEN [len |-> w + 3, rep |-> <<"\n">> \o Repeat(" ", indent) \o <<"-", " ">>]
        ELSE NoMatch
FixNestedIndent(s) == ReplaceAll(s, [i \in 1..Len(s) |-> MatchNestedItem(s, i)])

\* .replace(/\n>\s*\n>/g, '\n>\n>')
MatchBlockquote(s, i) ==
    LET w == RunIn(s, i + 2, Ws)
    IN  IF /\ StartsAt(s, i, <<"\n", ">">>)
           /\ w >= 1 /\ s[i + 1 + w] = "\n"
           /\ i + 2 + w <= Len(s) /\ s[i + 2 + w] = ">"
        THEN [len |-> w + 3, rep |-> <<"\n", ">", "\n", ">">>]
        ELSE NoMatch
FixBlockquote(s) == ReplaceAll(s, [i \in 1..Len(s) |-> MatchBlockquote(s, i)])

\* .replace(/\n([-*_]{3,})\n/g, '\n\n$1\n\n')
MatchHorizontalRule(s, i) ==
    LET r == RunIn(s, i + 1, {"-", "*", "_"})
    IN  IF s[i] = "\n" /\ r >= 3 /\ i + 1 + r <= Len(s) /\ s[i + 1 + r] = "\n"
        THEN [len |-> r + 2,
              rep |-> <<"\n", "\n">> \o Sub(s, i + 1, i + r) \o <<"\n", "\n">>]
        ELSE NoMatch
HorizontalRuleSpacing(s) == ReplaceAll(s, [i \in 1..Len(s) |-> MatchHorizontalRule(s, i)])

\* the length of a match of #{1,6} [^\n]+ at position p, 0 when there is none
HeadingLineLen(s, p) ==
    LET r == RunIn(s, p, {"#"})
        e == RunNotIn(s, p + r + 1, {"\n"})
    IN  IF r >= 1 /\ r <= 6 /\ p + r <= Len(s) /\ s[p + r] = " " /\ e >= 1
        THEN r + 1 + e
        ELSE 0

\* .replace(/(\n#{1,6} [^\n]+\n)(?=#{1,6} [^\n]+)/g, '$1\n')
MatchConsecutiveHeadings(s, i) ==
    LET l == HeadingLineLen(s, i + 1)
        n == i + 1 + l                    \* the newline that ends $1
    IN  IF s[i] = "\n" /\ l > 0 /\ n <= Len(s) /\ HeadingLineLen(s, n + 1) > 0
        THEN [len |-> n - i + 1, rep |-> Sub(s, i, n) \o <<"\n">>]
        ELSE NoMatch
ConsecutiveHeadings(s) ==
    ReplaceAll(s, [i \in 1..Len(s) |-> MatchConsecutiveHeadings(s, i)])

\* .replace(/\[([^\]]+)\]\(([^)]+)\)/g, (m, text, url) => `[${text.trim()}](${url.trim()})`)
MatchLink(s, i) ==
    LET a == RunNotIn(s, i + 1, {"]"})
        c == i + 1 + a                    \* the closing bracket
        b == RunNotIn(s, c + 2, {")"})
        d == c + 2 + b                    \* the closing parenthesis
    IN  IF /\ s[i] = "[" /\ a >= 1 /\ c + 1 <= Len(s) /\ s[c + 1] = "("
           /\ b >= 1 /\ d <= Len(s)
        THEN [len |-> d - i + 1,
              rep |-> <<"[">> \o Trim(Sub(s, i + 1, c - 1)) \o <<"]", "(">>
                      \o Trim(Sub(s, c + 2, d - 1)) \o <<")">>]
        ELSE NoMatch
LinkFormatting(s) == ReplaceAll(s, [i \in 1..Len(s) |-> MatchLink(s, i)])

\* .replace(/`\s+([^`]+)\s+`/g, '`$1`'): the leading white space is greedy,
\* $1 is greedy and gives back exactly the last white-space character
MatchInlineCode(s, i) ==
    LET n == RunNotIn(s, i + 1, {Bq})
        content == Sub(s, i + 1, i + n)
        lead == Min(RunIn(content, 1, Ws), n - 2)
    IN  IF /\ s[i] = Bq /\ i + 1 + n <= Len(s) /\ n >= 3
           /\ content[1] \in Ws /\ content[n] \in Ws
        THEN [len |-> n + 2, rep |-> <<Bq>> \o Sub(content, lead + 1, n - 1) \o <<Bq>>]
        ELSE NoMatch
InlineCodeWhitespace(s) == ReplaceAll(s, [i \in 1..Len(s) |-> MatchInlineCode(s, i)])

\* prevLine.match(/(\d+)\.\s+/): the digits of the leftmost match, <<>> when none
NumberMarkerIn(line) ==
    LET Hit(j) == LET r == RunIn(line, j, DigitSet)
                  IN  /\ r >= 1 /\ j + r + 1 <= Len(line)
                      /\ line[j + r] = "." /\ line[j + r + 1] \in Ws
        hits == {j \in 1..Len(line) : Hit(j)}
        first == CHOOSE j \in hits : \A o \in hits : j <= o
    IN  IF hits = {} THEN <<>> ELSE Sub(line, first, first + RunIn(line, first, DigitSet) - 1)

\* .replace(/\n\s*\d+\.\s+/g, (match, offset, string) => ...): the number is
\* taken from the line before the match in the string being replaced
MatchOrderedItem(s, i) ==
    LET w == RunIn(s, i + 1, Ws)
        p == i + 1 + w
        d == RunIn(s, p, DigitSet)
        t == RunIn(s, p + d + 1, Ws)
        b == RunBack(Sub(s, 1, i - 1) , i - 1, {c \in {s[k] : k \in 1..Len(s)} : c # "\n"})
        prevLine == Sub(s, i - b, i - 1)
        prevNum == NumberMarkerIn(prevLine)
        isNewList == prevNum = <<>>
        number == IF isNewList THEN 1 ELSE ParseInt(prevNum) + 1
    IN  IF /\ s[i] = "\n" /\ d >= 1 /\ p + d <= Len(s) /\ s[p + d] = "." /\ t >= 1
        THEN [len |-> w + d + t + 2, rep |-> <<"\n">> \o ToDigits(number) \o <<".", " ">>]
        ELSE NoMatch
OrderedListNumbering(s) == ReplaceAll(s, [i \in 1..Len(s) |-> MatchOrderedItem(s, i)])

\* .replace(/(fence)([a-zA-Z0-9]+)/g, (m, lang) => '(fence)' + lang.toLowerCase())
MatchFenceLang(s, i) ==
    LET a == RunIn(s, i + 3, AlNum)
    IN  IF StartsAt(s, i, Fence) /\ a >= 1
        THEN [len |-> 3 + a, rep |-> Fence \o ToLower(Sub(s, i + 3, i + 2 + a))]
        ELSE NoMatch
LowercaseFenceLang(s) == ReplaceAll(s, [i \in 1..Len(s) |-> MatchFenceLang(s, i)])

\* the alternation (\*\*|\*|__|_), in the order the regular expression tries it
EmphasisDelims == << <<"*", "*">>, <<"*">>, <<"_", "_">>, <<"_">> >>

\* the first delimiter that matches at position i and is followed by a
\* character whose white-space-ness is `after`; 0 when none does
DelimAt(s, i, after) ==
    LET Fits(k) == /\ StartsAt(s, i, EmphasisDelims[k])
                   /\ i + Len(EmphasisDelims[k]) <= Len(s)
                   /\ (s[i + Len(EmphasisDelims[k])] \in Ws) = after
        fits == {k \in 1..4 : Fits(k)}
    IN  IF fits = {} THEN 0 ELSE CHOOSE k \in fits : \A o \in fits : k <= o

\* .replace(/(\S)(\*\*|\*|__|_)(\S)/g, '$1 $2$3')
MatchEmphasisInner(s, i) ==
    LET k == DelimAt(s, i + 1, FALSE)
        d == EmphasisDelims[k]
    IN  IF s[i] \notin Ws /\ k # 0
        THEN [len |-> Len(d) + 2, rep |-> <<s[i], " ">> \o d \o <<s[i + 1 + Len(d)]>>]
        ELSE NoMatch
EmphasisSpacingInner(s) == ReplaceAll(s, [i \in 1..Len(s) |-> MatchEmphasisInner(s, i)])

\* .replace(/(\S)(\*\*|\*|__|_)(\s)/g, '$1 $2$3')
MatchEmphasisClose(s, i) ==
    LET k == DelimAt(s, i + 1, TRUE)
        d == EmphasisDelims[k]
    IN  IF s[i] \notin Ws /\ k # 0
        THEN [len |-> Len(d) + 2, rep |-> <<s[i], " ">> \o d \o <<s[i + 1 + Len(d)]>>]
        ELSE NoMatch
EmphasisSpacingClose(s) == ReplaceAll(s, [i \in 1..Len(s) |-> MatchEmphasisClose(s, i)])

\* .replace(/(\s)(\*\*|\*|__|_)(\S)/g, '$1$2 $3')
MatchEmphasisOpen(s, i) ==
    LET k == DelimAt(s, i + 1, FALSE)
        d == EmphasisDelims[k]
    IN  IF s[i] \in Ws /\ k # 0
        THEN [len |-> Len(d) + 2, rep |-> <<s[i]>> \o d \o <<" ", s[i + 1 + Len(d)]>>]
        ELSE NoMatch
EmphasisSpacingOpen(s) == ReplaceAll(s, [i \in 1..Len(s) |-> MatchEmphasisOpen(s, i)])

\* .replace(/!\[(.*?)\]\((.*?)\)/g, (m, alt, src) => `![${alt.trim()}](${src.trim()})`)
MatchImage(s, i) ==
    LET a == RunNotIn(s, i + 2, LineTerm)
        ps == {p \in (i + 2)..(i + a) : StartsAt(s, p, <<"]", "(">>)}
        p == CHOOSE x \in ps : \A o \in ps : x <= o
        q == p + 2 + RunNotIn(s, p + 2, LineTerm \cup {")"})
    IN  IF /\ StartsAt(s, i, <<"!", "[">>) /\ ps # {}
           /\ q <= Len(s) /\ s[q] = ")"
        THEN [len |-> q - i + 1,
              rep |-> <<"!", "[">> \o Trim(Sub(s, i + 2, p - 1)) \o <<"]", "(">>
                      \o Trim(Sub(s, p + 2, q - 1)) \o <<")">>]
        ELSE NoMatch
ImageFormatting(s) == ReplaceAll(s, [i \in 1..Len(s) |-> MatchImage(s, i)])

\* .replace(/\n\s*[*+]\s+/g, '\n- ')
MatchBullet(s, i) ==
    LET w == RunIn(s, i + 1, Ws)
        j == i + 1 + w
        t == RunIn(s, j + 1, Ws)
    IN  IF s[i] = "\n" /\ j <= Len(s) /\ s[j] \in {"*", "+"} /\ t >= 1
        THEN [len |-> w + t + 2, rep |-> <<"\n", "-", " ">>]
        ELSE NoMatch
BulletConsistency(s) == ReplaceAll(s, [i \in 1..Len(s) |-> MatchBullet(s, i)])

\* .replace(/([^\n])\n(fence)/g, '$1\n\n(fence)')
MatchBeforeFence(s, i) ==
    IF s[i] # "\n" /\ StartsAt(s, i + 1, <<"\n">> \o Fence)
    THEN [len |-> 5, rep |-> <<s[i], "\n", "\n">> \o Fence]
    ELSE NoMatch
BlankBeforeFence(s) == ReplaceAll(s, [i \in 1..Len(s) |-> MatchBeforeFence(s, i)])

\* .replace(/(fence)\n([^\n])/g, '(fence)\n\n$1')
MatchAfterFence(s, i) ==
    IF StartsAt(s, i, Fence \o <<"\n">>) /\ i + 4 <= Len(s) /\ s[i + 4] # "\n"
    THEN [len |-> 5, rep |-> Fence \o <<"\n", "\n", s[i + 4]>>]
    ELSE NoMatch
BlankAfterFence(s) == ReplaceAll(s, [i \in 1..Len(s) |-> MatchAfterFence(s, i)])

\* MarkdownConversionService.postProcessMarkdown
postProcessMarkdown(markdown) ==
    IF markdown = <<>> THEN <<>>
    ELSE
    Trim(BlankAfterFence(BlankBeforeFence(BulletConsistency(ImageFormatting(
    EmphasisSpacingOpen(EmphasisSpacingClose(EmphasisSpacingInner(
    LowercaseFenceLang(OrderedListNumbering(InlineCodeWhitespace(LinkFormatting(
    ConsecutiveHeadings(HorizontalRuleSpacing(FixBlockquote(FixNestedIndent(
    TablePipeRight(TablePipeLeft(TrimTrailingWhitespace(FixHeadingSpacing(
    CodeBlockSpacing(FixListItemSpacing(CollapseLineBreaks(NormalizeLineEndings(
        markdown))))))))))))))))))))))))

(***************************************************************************)
(* HTML strings.  An HTML string is a sequence of lexemes: a character     *)
(* [k |-> "c"], an opening tag with its attributes [k |-> "o"] or a        *)
(* closing tag [k |-> "x"].  Attributes are a set of <<name, value>>       *)
(* pairs.  The text of the documents of the model holds none of the        *)
(* characters <, > and &, so that serialising a tree and parsing it again  *)
(* changes no text.                                                        *)
(***************************************************************************)
Ch(c) == [k |-> "c", v |-> c, a |-> {}]
OpenTag(n, a) == [k |-> "o", v |-> n, a |-> a]
CloseTag(n) == [k |-> "x", v |-> n, a |-> {}]
Text(chars) == [i \in 1..Len(chars) |-> Ch(chars[i])]

\* elements that have no content and no closing tag
VoidTags == {"br", "img", "input", "source", "hr"}

Element(n, a, inner) ==
    IF n \in VoidTags THEN <<OpenTag(n, a)>>
    ELSE <<OpenTag(n, a)>> \o inner \o <<CloseTag(n)>>

CommentOpen == <<"<", "!", "-", "-">>
CommentClose == <<"-", "-", ">">>
Comment(chars) == Text(CommentOpen \o chars \o CommentClose)

\* element.getAttribute(n) || ''
Attr(a, n) == IF \E p \in a : p[1] = n THEN (CHOOSE p \in a : p[1] = n)[2] ELSE ""
\* element.hasAttribute(n)
HasAttr(a, n) == \E p \in a : p[1] = n
\* element.setAttribute(n, v)
SetAttr(a, n, v) == {p \in a : p[1] # n} \cup {<<n, v>>}

\* the attributes of the model, in the order they are written in a tag
AttrNames == <<"class", "data-preserve", "src", "title", "poster", "align", "style",
               "type", "checked", "data-align", "data-list-level", "data-quote-level",
               "data-def-term", "data-def-desc", "alt", "width", "height", "id", "href">>

RECURSIVE AttrString(_, _)
AttrString(a, i) ==
    IF i > Len(AttrNames) THEN ""
    ELSE (IF HasAttr(a, AttrNames[i])
          THEN " " \o AttrNames[i] \o "=" \o Attr(a, AttrNames[i])
          ELSE "") \o AttrString(a, i + 1)

\* the text of one lexeme, as one character of a string of characters
CharOf(l) ==
    CASE l.k = "c" -> l.v
      [] l.k = "o" -> "<" \o l.v \o AttrString(l.a, 1) \o ">"
      [] OTHER -> "</" \o l.v \o ">"

\* an HTML string as the characters a regular expression or indexOf sees
Chars(s) == [i \in 1..Len(s) |-> CharOf(s[i])]

(***************************************************************************)
(* The DOM: container.innerHTML = html, and container.innerHTML read back. *)
(* A node is a text node (name "#text"), a comment ("#comment") or an      *)
(* element with its child nodes; id tells nodes apart.                     *)
(***************************************************************************)
TextNode(id, chars) ==
    [id |-> id, name |-> "#text", attrs |-> {}, kids |-> <<>>, text |-> chars]
CommentNode(id, chars) ==
    [id |-> id, name |-> "#comment", attrs |-> {}, kids |-> <<>>, text |-> chars]
ElementNode(id, n, a, kids) ==
    [id |-> id, name |-> n, attrs |-> a, kids |-> kids, text |-> <<>>]

\* the number of character lexemes from position i on, up to a tag or a comment
RECURSIVE TextRun(_, _, _)
TextRun(s, cs, i) ==
    IF i > Len(s) \/ s[i].k # "c" \/ StartsAt(cs, i, CommentOpen) THEN 0
    ELSE 1 + TextRun(s, cs, i + 1)

\* the sibling nodes that start at position i of s, up to a closing tag or
\* the end of s; nid is the first free node id
RECURSIVE ParseNodes(_, _, _, _)
ParseNodes(s, cs, i, nid) ==
    IF i > Len(s) \/ s[i].k = "x"
    THEN [nodes |-> <<>>, next |-> i, nid |-> nid]
    ELSE IF s[i].k = "o" /\ s[i].v \in VoidTags
    THEN LET rest == ParseNodes(s, cs, i + 1, nid + 1)
         IN  [rest EXCEPT !.nodes = <<ElementNode(nid, s[i].v, s[i].a, <<>>)>> \o @]
    ELSE IF s[i].k = "o"
    THEN LET inner == ParseNodes(s, cs, i + 1, nid + 1)
             rest == ParseNodes(s, cs, Min(inner.next + 1, Len(s) + 1), inner.nid)
         IN  [rest EXCEPT !.nodes = <<ElementNode(nid, s[i].v, s[i].a, inner.nodes)>> \o @]
    ELSE IF StartsAt(cs, i, CommentOpen)
    THEN LET e == IndexFrom(cs, CommentClose, i + 4)
             stop == IF e = 0 THEN Len(s) + 1 ELSE e
             rest == ParseNodes(s, cs, Min(stop + 3, Len(s) + 1), nid + 1)
         IN  [rest EXCEPT !.nodes = <<CommentNode(nid, Sub(cs, i + 4, stop - 1))>> \o @]
    ELSE LET n == 1 + TextRun(s, cs, i + 1)
             rest == ParseNodes(s, cs, i + n, nid + 1)
         IN  [rest EXCEPT !.nodes = <<TextNode(nid, Sub(cs, i, i + n - 1))>> \o @]

\* the forest with its nodes numbered in document order from nid on
RECURSIVE Number(_, _)
Number(nodes, nid) ==
    IF nodes = <<>> THEN [nodes |-> <<>>, nid |-> nid]
    ELSE LET inner == Number(Head(nodes).kids, nid + 1)
             rest == Number(Tail(nodes), inner.nid)
         IN  [nodes |-> <<[Head(nodes) EXCEPT !.id = nid, !.kids = inner.nodes]>> \o rest.nodes,
              nid |-> rest.nid]
Renumber(nodes) == Number(nodes, 1).nodes

\* the elements at the head of a sequence of elements that have this name
RECURSIVE LeadingRun(_, _)
LeadingRun(elems, name) ==
    IF elems = <<>> \/ Head(elems).name # name THEN <<>>
    ELSE <<Head(elems)>> \o LeadingRun(Tail(elems), name)

\* the HTML parser puts the tr elements it finds directly in a table into a
\* tbody element: one for each run of such rows
RECURSIVE WrapRows(_)
WrapRows(kids) ==
    IF kids = <<>> THEN <<>>
    ELSE IF Head(kids).name = "tr"
    THEN <<ElementNode(0, "tbody", {}, LeadingRun(kids, "tr"))>>
         \o WrapRows(Sub(kids, Len(LeadingRun(kids, "tr")) + 1, Len(kids)))
    ELSE <<Head(kids)>> \o WrapRows(Tail(kids))

RECURSIVE InsertBodies(_)
InsertBodies(nodes) ==
    IF nodes = <<>> THEN <<>>
    ELSE <<[Head(nodes) EXCEPT !.kids = IF Head(nodes).name = "table"
                                         THEN WrapRows(InsertBodies(@))
                                         ELSE InsertBodies(@)]>>
         \o InsertBodies(Tail(nodes))

\* const container = document.createElement('div'); container.innerHTML = html
\* (the container has id 0)
ParseHtml(s) ==
    ElementNode(0, "div", {}, Renumber(InsertBodies(ParseNodes(s, Chars(s), 1, 1).nodes)))

\* the HTML serialisation of a sequence of sibling nodes
RECURSIVE SerializeNodes(_)
SerializeNodes(nodes) ==
    IF nodes = <<>> THEN <<>>
    ELSE LET n == Head(nodes)
         IN  (CASE n.name = "#text" -> Text(n.text)
                [] n.name = "#comment" -> Comment(n.text)
                [] OTHER -> Element(n.name, n.attrs, SerializeNodes(n.kids)))
             \o SerializeNodes(Tail(nodes))

\* element.innerHTML and element.outerHTML
InnerHtml(node) == SerializeNodes(node.kids)
OuterHtml(node) == SerializeNodes(<<node>>)

\* the nodes of a forest in document order (each node before its descendants)
RECURSIVE Descendants(_)
Descendants(nodes) ==
    IF nodes = <<>> THEN <<>>
    ELSE <<Head(nodes)>> \o Descendants(Head(nodes).kids) \o Descendants(Tail(nodes))

\* the first node id that ParseHtml(s) has not used
FreshId(s) == Len(Descendants(ParseHtml(s).kids)) + 1

\* node.textContent
RECURSIVE TextContentOf(_)
TextContentOf(nodes) ==
    IF nodes = <<>> THEN <<>>
    ELSE LET n == Head(nodes)
         IN  (CASE n.name = "#text" -> n.text
                [] n.name = "#comment" -> <<>>
                [] OTHER -> TextContentOf(n.kids))
             \o TextContentOf(Tail(nodes))

\* the subsequence of the elements of a sequence that satisfy a test
RECURSIVE SelectIds(_, _)
SelectIds(nodes, ids) ==
    IF nodes = <<>> THEN <<>>
    ELSE (IF Head(nodes).id \in ids THEN <<Head(nodes)>> ELSE <<>>)
         \o SelectIds(Tail(nodes), ids)

\* the forest with the node id replaced by the sequence repl (<<>> removes it)
RECURSIVE ReplaceNode(_, _, _)
ReplaceNode(nodes, id, repl) ==
    IF nodes = <<>> THEN <<>>
    ELSE LET n == Head(nodes)
         IN  (IF n.id = id THEN repl
              ELSE <<[n EXCEPT !.kids = ReplaceNode(n.kids, id, repl)]>>)
             \o ReplaceNode(Tail(nodes), id, repl)

\* the forest with the sequence more appended to the children of node pid
RECURSIVE AppendKids(_, _, _)
AppendKids(nodes, pid, more) ==
    IF nodes = <<>> THEN <<>>
    ELSE LET n == Head(nodes)
         IN  <<[n EXCEPT !.kids = IF n.id = pid THEN n.kids \o more
                                  ELSE AppendKids(n.kids, pid, more)]>>
             \o AppendKids(Tail(nodes), pid, more)

\* whether the forest holds a node with this id
HasNode(nodes, id) == \E k \in 1..Len(Descendants(nodes)) : Descendants(nodes)[k].id = id

\* the node with this id
NodeById(nodes, id) ==
    LET d == Descendants(nodes)
    IN  d[CHOOSE k \in 1..Len(d) : d[k].id = id]

\* the id that stands for null where a node is expected
NoNode == 0 - 1

\* node.nodeType === 1
IsElement(node) == node.name \notin {"#text", "#comment"}
\* element.children
ElementKids(kids) == SelectIds(kids, {kids[k].id : k \in {j \in 1..Len(kids) : IsElement(kids[j])}})

\* the id of the parent of node id in the tree under root (root.id for a child of root)
ParentId(root, id) ==
    LET d == <<root>> \o Descendants(root.kids)
    IN  d[CHOOSE k \in 1..Len(d) : \E j \in 1..Len(d[k].kids) : d[k].kids[j].id = id].id

(***************************************************************************)
(* extractFrontMatter (markdownConversionService.ts lines 108-141).        *)
(***************************************************************************)
\* the value of a local that is null or a string
Null == [isNull |-> TRUE, text |-> <<>>]
Str(chars) == [isNull |-> FALSE, text |-> chars]

FrontMatterKeyword == <<"f", "r", "o", "n", "t", "-", "m", "a", "t", "t", "e", "r">>
FrontMatterClose == <<"\n", "-", "-", ">">>

\* whether the keyword kw occurs in cs at position k, whatever the case (/i)
StartsAtNoCase(cs, k, kw) ==
    /\ k + Len(kw) - 1 <= Len(cs)
    /\ \A j \in 1..Len(kw) : ToLowerChar(cs[k + j - 1]) = kw[j]

\* /<!--\s*front-matter\s*\n([\s\S]*?)\n-->/i at position i of cs: the second
\* \s* is greedy and gives characters back until a newline follows it and
\* the lazy group finds the closing line; all is match[0], body is match[1]
MatchFrontMatter(cs, i) ==
    LET k == i + 4 + RunIn(cs, i + 4, Ws)
        a == k + Len(FrontMatterKeyword)
        nl == {n \in a..(a + RunIn(cs, a, Ws) - 1) :
                  cs[n] = "\n" /\ IndexFrom(cs, FrontMatterClose, n + 1) # 0}
    IN  IF StartsAt(cs, i, CommentOpen) /\ StartsAtNoCase(cs, k, FrontMatterKeyword)
           /\ nl # {}
        THEN LET n == CHOOSE x \in nl : \A y \in nl : y <= x
                 e == IndexFrom(cs, FrontMatterClose, n + 1)
             IN  [found |-> TRUE, all |-> Sub(cs, i, e + 3), body |-> Sub(cs, n + 1, e - 1)]
        ELSE [found |-> FALSE, all |-> <<>>, body |-> <<>>]

\* html.match(frontMatterRegex): the leftmost match
FrontMatterMatch(cs) ==
    LET at == {i \in 1..Len(cs) : MatchFrontMatter(cs, i).found}
    IN  IF at = {} THEN [found |-> FALSE, all |-> <<>>, body |-> <<>>]
        ELSE MatchFrontMatter(cs, CHOOSE i \in at : \A j \in at : i <= j)

\* html.replace(match[0], ''): the first occurrence of the string p removed
RemoveFirst(h, p) ==
    LET at == IndexOf(Chars(h), p)
    IN  IF at = 0 THEN h ELSE Sub(h, 1, at - 1) \o Sub(h, at + Len(p), Len(h))

extractFrontMatter(h, preserveFrontMatter) ==
    LET m == FrontMatterMatch(Chars(h))
    IN  IF ~preserveFrontMatter \/ ~m.found
        THEN [html |-> h, frontMatter |-> Null]
        ELSE [html |-> RemoveFirst(h, m.all), frontMatter |-> Str(Trim(m.body))]

(***************************************************************************)
(* preserveSpecialContent (markdownConversionService.ts lines 150-209).    *)
(* The Placeholder Map is the sequence of its entries in insertion order;  *)
(* a key is a string of characters, a value an HTML string.                *)
(***************************************************************************)
MathPrefix ==
    <<"M", "A", "T", "H", "_", "P", "L", "A", "C", "E", "H", "O", "L", "D", "E", "R", "_">>
MathBlockPrefix ==
    <<"M", "A", "T", "H", "_", "B", "L", "O", "C", "K", "_",
      "P", "L", "A", "C", "E", "H", "O", "L", "D", "E", "R", "_">>
SpecialBlockPrefix ==
    <<"S", "P", "E", "C", "I", "A", "L", "_", "B", "L", "O", "C", "K", "_",
      "P", "L", "A", "C", "E", "H", "O", "L", "D", "E", "R", "_">>
CommentPrefix ==
    <<"C", "O", "M", "M", "E", "N", "T", "_",
      "P", "L", "A", "C", "E", "H", "O", "L", "D", "E", "R", "_">>
PreserveKeyword == <<"@", "p", "r", "e", "s", "e", "r", "v", "e">>

\* (prefix)${placeholderCounter++}
Placeholder(prefix, counter) == prefix \o ToDigits(counter)

\* the start positions of the successive matches of a global regular
\* expression, given the length ml[i] of the match at every position
RECURSIVE MatchStarts(_, _)
MatchStarts(ml, i) ==
    LET matches == {j \in i..Len(ml) : ml[j] > 0}
    IN  IF matches = {} THEN <<>>
        ELSE <<Least(matches)>> \o MatchStarts(ml, Least(matches) + ml[Least(matches)])

\* html.replace(regex, callback) where the callback records the k-th match
\* (as value(start, length)) under Placeholder(prefix, counter + k - 1) and
\* returns that placeholder: the new string and the new entries
ReplaceRecording(cs, ml, prefix, counter, value(_, _)) ==
    LET starts == MatchStarts(ml, 1)
        rank(i) == CHOOSE k \in 1..Len(starts) : starts[k] = i
        m == [i \in 1..Len(cs) |->
                 IF ml[i] > 0 /\ \E k \in 1..Len(starts) : starts[k] = i
                 THEN [len |-> ml[i], rep |-> Placeholder(prefix, counter + rank(i) - 1)]
                 ELSE NoMatch]
    IN  [html |-> ReplaceAll(cs, m),
         entries |-> [k \in 1..Len(starts) |->
                         [key |-> Placeholder(prefix, counter + k - 1),
                          value |-> value(starts[k], ml[starts[k]])]]]

\* /\$([^$]+)\$/g at position i: the length of the match
InlineMathLen(cs, i) ==
    LET r == RunNotIn(cs, i + 1, {"$"})
    IN  IF cs[i] = "$" /\ r >= 1 /\ i + 1 + r <= Len(cs) THEN r + 2 ELSE 0

\* /\$\$([\s\S]+?)\$\$/g at position i: the length of the match
BlockMathLen(cs, i) ==
    LET e == IndexFrom(cs, <<"$", "$">>, i + 3)
    IN  IF StartsAt(cs, i, <<"$", "$">>) /\ e # 0 THEN e + 2 - i ELSE 0

\* /<!--\s*@preserve\s*([\s\S]*?)-->/g at position i: the start of the group
\* and the position of the closing delimiter (0: no match)
PreserveCommentAt(cs, i) ==
    LET k == i + 4 + RunIn(cs, i + 4, Ws)
        a == k + Len(PreserveKeyword)
        b == a + RunIn(cs, a, Ws)
        e == IndexFrom(cs, CommentClose, b)
    IN  IF StartsAt(cs, i, CommentOpen) /\ StartsAt(cs, k, PreserveKeyword) /\ e # 0
        THEN [from |-> b, close |-> e]
        ELSE [from |-> 0, close |-> 0]

PreserveCommentLen(cs, i) ==
    IF PreserveCommentAt(cs, i).close = 0 THEN 0
    ELSE PreserveCommentAt(cs, i).close + 3 - i

\* element.classList.contains(c); the class attribute of the model holds at
\* most one class
HasClass(node, c) == Attr(node.attrs, "class") = c
SpecialClasses == <<"mermaid", "math", "graphviz">>

\* container.querySelectorAll('pre.mermaid, pre.math, pre.graphviz, pre[data-preserve]')
IsSpecialBlock(node) ==
    /\ node.name = "pre"
    /\ \/ \E k \in 1..Len(SpecialClasses) : HasClass(node, SpecialClasses[k])
       \/ HasAttr(node.attrs, "data-preserve")

\* element.querySelectorAll(selector): the descendants of the forest that
\* satisfy the test of the selector, in document order
QuerySelectorAll(nodes, Test(_)) ==
    LET d == Descendants(nodes)
    IN  SelectIds(d, {d[k].id : k \in {j \in 1..Len(d) : Test(d[j])}})

\* specialCodeBlocks.forEach: block.outerHTML = placeholder, for the blocks
\* from the k-th on; kids are the children of the container
RECURSIVE ReplaceSpecialBlocks(_, _, _, _, _)
ReplaceSpecialBlocks(kids, blocks, k, counter, fresh) ==
    IF k > Len(blocks) THEN kids
    ELSE ReplaceSpecialBlocks(
             ReplaceNode(kids, blocks[k].id,
                         <<TextNode(fresh + k, Placeholder(SpecialBlockPrefix, counter + k - 1))>>),
             blocks, k + 1, counter, fresh)

\* the result of preserveSpecialContent when nothing throws: the returned
\* string and the map stored in this._preservedContent
preserveSpecialContent(h) ==
    LET container == ParseHtml(h)
        cs == Chars(h)
        inline == ReplaceRecording(cs, [i \in 1..Len(cs) |-> InlineMathLen(cs, i)],
                                   MathPrefix, 0, LAMBDA i, n : Text(Sub(cs, i, i + n - 1)))
        c1 == Len(inline.entries)
        s1 == inline.html
        block == ReplaceRecording(s1, [i \in 1..Len(s1) |-> BlockMathLen(s1, i)],
                                  MathBlockPrefix, c1, LAMBDA i, n : Text(Sub(s1, i, i + n - 1)))
        c2 == c1 + Len(block.entries)
        s2 == block.html
        blocks == QuerySelectorAll(container.kids, IsSpecialBlock)
        special == [k \in 1..Len(blocks) |->
                       [key |-> Placeholder(SpecialBlockPrefix, c2 + k - 1),
                        value |-> OuterHtml(blocks[k])]]
        c3 == c2 + Len(blocks)
        comments == ReplaceRecording(s2, [i \in 1..Len(s2) |-> PreserveCommentLen(s2, i)],
                                     CommentPrefix, c3,
                                     LAMBDA i, n : Text(Trim(Sub(s2, PreserveCommentAt(s2, i).from,
                                                                 PreserveCommentAt(s2, i).close - 1))))
    IN  [html |-> SerializeNodes(ReplaceSpecialBlocks(container.kids, blocks, 1, c2, FreshId(h))),
         edited |-> comments.html,
         preserved |-> inline.entries \o block.entries \o special \o comments.entries]

(***************************************************************************)
(* restoreSpecialContent (markdownConversionService.ts lines 217-262).     *)
(***************************************************************************)
\* the replacement string of String.prototype.replace, with its patterns
\* expanded: $$ is a dollar sign, $& the matched string, $` what precedes
\* the match and $' what follows it
RECURSIVE Substitution(_, _, _, _)
Substitution(rep, matched, before, after) ==
    IF rep = <<>> THEN <<>>
    ELSE IF Len(rep) >= 2 /\ rep[1] = "$" /\ rep[2] \in {"$", "&", Bq, "'"}
    THEN (CASE rep[2] = "$" -> <<"$">>
            [] rep[2] = "&" -> matched
            [] rep[2] = Bq -> before
            [] OTHER -> after)
         \o Substitution(Sub(rep, 3, Len(rep)), matched, before, after)
    ELSE <<Head(rep)>> \o Substitution(Tail(rep), matched, before, after)

\* result.replace(placeholder, replacement): the first occurrence replaced
ReplaceFirst(s, p, rep) ==
    LET at == IndexOf(s, p)
        before == Sub(s, 1, at - 1)
        after == Sub(s, at + Len(p), Len(s))
    IN  IF at = 0 THEN s ELSE before \o Substitution(rep, p, before, after) \o after

\* the characters of the class names that name a language
ClassChars(class) ==
    CASE class = "mermaid" -> <<"m", "e", "r", "m", "a", "i", "d">>
      [] class = "math" -> <<"m", "a", "t", "h">>
      [] class = "graphviz" -> <<"g", "r", "a", "p", "h", "v", "i", "z">>
      [] OTHER -> <<>>

\* what restoreSpecialContent puts in the place of the placeholder of an entry
Restored(entry) ==
    LET original == Chars(entry.value)
    IN  IF StartsAt(entry.key, 1, MathPrefix) THEN original
        ELSE IF StartsAt(entry.key, 1, MathBlockPrefix)
        THEN <<"\n", "\n">> \o original \o <<"\n", "\n">>
        ELSE IF StartsAt(entry.key, 1, SpecialBlockPrefix)
        THEN LET pres == QuerySelectorAll(ParseHtml(entry.value).kids, LAMBDA n : n.name = "pre")
                 lang == IF \E k \in 1..Len(SpecialClasses) : HasClass(pres[1], SpecialClasses[k])
                         THEN ClassChars(Attr(pres[1].attrs, "class")) ELSE <<>>
             IN  IF pres = <<>> THEN original
                 ELSE <<"\n", "\n">> \o Fence \o lang \o <<"\n">> \o TextContentOf(<<pres[1]>>)
                      \o <<"\n">> \o Fence \o <<"\n", "\n">>
        ELSE IF StartsAt(entry.key, 1, CommentPrefix)
        THEN CommentOpen \o <<" ">> \o original \o <<" ">> \o CommentClose
        ELSE entry.key

\* for (const [placeholder, originalContent] of this._preservedContent.entries())
RECURSIVE RestoreFrom(_, _, _)
RestoreFrom(md, entries, k) ==
    IF k > Len(entries) THEN md
    ELSE RestoreFrom(ReplaceFirst(md, entries[k].key, Restored(entries[k])), entries, k + 1)

\* the returned string and what this._preservedContent holds on return
restoreSpecialContent(md, entries) ==
    IF md = <<>> \/ entries = <<>>
    THEN [markdown |-> md, preserved |-> entries]
    ELSE [markdown |-> RestoreFrom(md, entries, 1), preserved |-> <<>>]

(***************************************************************************)
(* handleUnusualStructures (markdownConversionService.ts lines 270-541).   *)
(* A node the code creates has id 0 until the step that created it is      *)
(* over; the NodeList of a step holds the ids the elements had when the    *)
(* step began, so that an element a step has detached from the container   *)
(* is no longer found in it.                                               *)
(***************************************************************************)
\* document.createElement(n) with its attributes and children set
New(n, a, kids) == ElementNode(0, n, a, kids)
\* document.createTextNode(chars); an element whose textContent is set to
\* the empty string has no child
NewText(chars) == IF chars = <<>> THEN <<>> ELSE <<TextNode(0, chars)>>

\* node.cloneNode(true): the same tree made of new nodes
RECURSIVE CloneNodes(_)
CloneNodes(nodes) ==
    IF nodes = <<>> THEN <<>>
    ELSE <<[Head(nodes) EXCEPT !.id = 0, !.kids = CloneNodes(Head(nodes).kids)]>>
         \o CloneNodes(Tail(nodes))

\* element.querySelectorAll of a list of tag names
ByName(nodes, names) == QuerySelectorAll(nodes, LAMBDA n : n.name \in names)

\* the position of the node id among the sequence of siblings sibs
IndexIn(sibs, id) == CHOOSE k \in 1..Len(sibs) : sibs[k].id = id

\* the children of the parent of node id, in the tree under root
SiblingsOf(root, id) ==
    LET pid == ParentId(root, id)
    IN  IF pid = root.id THEN root.kids ELSE NodeById(root.kids, pid).kids

\* while (desc && desc.tagName.toLowerCase() === 'dd'), desc going from
\* term.nextElementSibling to desc.nextElementSibling: the dd elements that
\* follow the term
DescriptionsOf(dl, term) ==
    LET sibs == SiblingsOf(dl, term.id)
    IN  LeadingRun(ElementKids(Sub(sibs, IndexIn(sibs, term.id) + 1, Len(sibs))), "dd")

\* the term and description pairs of a definition list, in the order the
\* two loops of lines 286-311 reach them
RECURSIVE PairsFrom(_, _, _)
PairsFrom(dl, terms, k) ==
    IF k > Len(terms) THEN <<>>
    ELSE LET dds == DescriptionsOf(dl, terms[k])
         IN  [j \in 1..Len(dds) |-> [term |-> terms[k], desc |-> dds[j]]]
             \o PairsFrom(dl, terms, k + 1)
DefinitionPairs(dl) == PairsFrom(dl, ByName(dl.kids, {"dt"}), 1)

\* the pairs of all the definition lists of a forest
RECURSIVE AllPairs(_, _)
AllPairs(dls, k) ==
    IF k > Len(dls) THEN <<>> ELSE DefinitionPairs(dls[k]) \o AllPairs(dls, k + 1)

\* the paragraph of a term and description pair, copied holding what the
\* loop of lines 300-302 has appended to it
TermParagraph(term, copied) ==
    New("p", {}, <<New("strong", {}, NewText(TextContentOf(<<term>>)))>>
                 \o NewText(<<":", " ">>) \o copied)

\* definitionLists.forEach from the k-th list on, when every description
\* the loops reach has no child node
RECURSIVE RewriteDefinitionLists(_, _, _)
RewriteDefinitionLists(tree, dls, k) ==
    IF k > Len(dls) THEN tree
    ELSE LET pairs == DefinitionPairs(dls[k])
             fragment == [j \in 1..Len(pairs) |-> TermParagraph(pairs[j].term, <<>>)]
         IN  RewriteDefinitionLists(ReplaceNode(tree, dls[k].id, fragment), dls, k + 1)

DetailsTitle == <<"D", "e", "t", "a", "i", "l", "s">>

\* detailsElements.forEach from the k-th element on
RECURSIVE RewriteDetails(_, _, _)
RewriteDetails(tree, ids, k) ==
    IF k > Len(ids) THEN tree
    ELSE LET details == NodeById(tree, ids[k])
             summaries == ByName(details.kids, {"summary"})
             text == IF summaries = <<>> THEN <<>> ELSE TextContentOf(<<summaries[1]>>)
             title == IF text = <<>> THEN DetailsTitle ELSE text
             \* while (details.firstChild): every child but the summary moves
             moved == IF summaries = <<>> THEN details.kids
                      ELSE SelectIds(details.kids,
                                     {details.kids[j].id : j \in 1..Len(details.kids)}
                                     \ {summaries[1].id})
             blockquote == New("blockquote", {},
                               <<New("strong", {}, NewText(title)), New("br", {}, <<>>)>>
                               \o moved)
         IN  RewriteDetails(ReplaceNode(tree, ids[k], <<blockquote>>), ids, k + 1)

\* the ids of the elements of a forest that a selector finds
IdsOf(nodes) == [k \in 1..Len(nodes) |-> nodes[k].id]

\* a string of characters as the value of an attribute
RECURSIVE AsString(_)
AsString(chars) == IF chars = <<>> THEN "" ELSE Head(chars) \o AsString(Tail(chars))

\* figures.forEach from the k-th element on
RECURSIVE RewriteFigures(_, _, _)
RewriteFigures(tree, ids, k) ==
    IF k > Len(ids) THEN tree
    ELSE IF ~HasNode(tree, ids[k]) THEN RewriteFigures(tree, ids, k + 1)
    ELSE LET figure == NodeById(tree, ids[k])
             captions == ByName(figure.kids, {"figcaption"})
             imgs == ByName(figure.kids, {"img"})
             text == TextContentOf(<<captions[1]>>)
             img == IF Attr(imgs[1].attrs, "alt") \in {"", " "}
                    THEN [imgs[1] EXCEPT !.attrs = SetAttr(@, "alt", AsString(text))]
                    ELSE imgs[1]
             wrapper == New("p", {}, CloneNodes(<<img>>) \o <<New("br", {}, <<>>)>>
                                     \o <<New("em", {}, NewText(text))>>)
         IN  IF imgs # <<>> /\ captions # <<>>
             THEN RewriteFigures(ReplaceNode(tree, ids[k], <<wrapper>>), ids, k + 1)
             ELSE RewriteFigures(tree, ids, k + 1)

\* container.querySelectorAll('body > li, div > li, p > li'); the container
\* is a div
IsDirectListItem(root, node) ==
    /\ node.name = "li"
    /\ \/ ParentId(root, node.id) = root.id
       \/ NodeById(root.kids, ParentId(root, node.id)).name \in {"body", "div", "p"}

\* directListItems.forEach from the k-th item on
RECURSIVE WrapListItems(_, _, _)
WrapListItems(tree, ids, k) ==
    IF k > Len(ids) THEN tree
    ELSE LET li == NodeById(tree, ids[k])
             parentList == New(IF HasClass(li, "ol-item") THEN "ol" ELSE "ul", {}, <<li>>)
         IN  WrapListItems(ReplaceNode(tree, ids[k], <<parentList>>), ids, k + 1)

\* container.querySelectorAll('li > ul, li > ol')
IsNestedList(root, node) ==
    /\ node.name \in {"ul", "ol"}
    /\ ParentId(root, node.id) # root.id
    /\ NodeById(root.kids, ParentId(root, node.id)).name = "li"

\* lines 403-417 for the nested list id: the loop moves every sibling that
\* follows the list into the fragment, and the wrapper span, the node sid,
\* takes them to the end of the parent
RECURSIVE WrapFollowing(_, _, _)
WrapFollowing(nodes, id, sid) ==
    IF \E k \in 1..Len(nodes) : nodes[k].id = id
    THEN LET k == IndexIn(nodes, id)
         IN  IF k = Len(nodes) THEN nodes
             ELSE Sub(nodes, 1, k)
                  \o <<ElementNode(sid, "span", {}, Sub(nodes, k + 1, Len(nodes)))>>
    ELSE [j \in 1..Len(nodes) |-> [nodes[j] EXCEPT !.kids = WrapFollowing(@, id, sid)]]

\* nestedLists.forEach from the k-th list on; top is an id no node has
RECURSIVE RewriteNestedLists(_, _, _, _)
RewriteNestedLists(tree, ids, k, top) ==
    IF k > Len(ids) THEN tree
    ELSE RewriteNestedLists(WrapFollowing(tree, ids[k], top + k), ids, k + 1, top)

\* the forest without the nodes whose ids are in ids
RECURSIVE RemoveNodes(_, _)
RemoveNodes(nodes, ids) ==
    IF nodes = <<>> THEN <<>>
    ELSE (IF Head(nodes).id \in ids THEN <<>>
          ELSE <<[Head(nodes) EXCEPT !.kids = RemoveNodes(@, ids)]>>)
         \o RemoveNodes(Tail(nodes), ids)

\* the dash that precedes a citation
Dash == "<dash>"

\* cites.forEach: a line break and the citation, emphasised, for each cite
RECURSIVE Citations(_, _)
Citations(cites, k) ==
    IF k > Len(cites) THEN <<>>
    ELSE <<New("br", {}, <<>>),
           New("em", {}, NewText(<<Dash, " ">> \o TextContentOf(<<cites[k]>>)))>>
         \o Citations(cites, k + 1)

\* blockquotes.forEach from the k-th element on
RECURSIVE RewriteCitations(_, _, _)
RewriteCitations(tree, ids, k) ==
    IF k > Len(ids) THEN tree
    ELSE LET blockquote == NodeById(tree, ids[k])
             cites == ByName(blockquote.kids, {"cite"})
             kids == RemoveNodes(blockquote.kids, {cites[j].id : j \in 1..Len(cites)})
                     \o Citations(cites, 1)
         IN  RewriteCitations(
                 ReplaceNode(tree, ids[k], <<[blockquote EXCEPT !.kids = kids]>>), ids, k + 1)

\* <strong>(label)</strong> <a href="(url)">(url)</a> in a paragraph
LinkParagraph(label, url) ==
    New("p", {}, <<New("strong", {}, NewText(<<label>>))>> \o NewText(<<" ">>)
                 \o <<New("a", {<<"href", url>>}, NewText(<<url>>))>>)

\* source.getAttribute('src') || '' of the first source element, if any
FirstSource(node) ==
    LET sources == ByName(node.kids, {"source"})
    IN  IF sources = <<>> THEN "" ELSE Attr(sources[1].attrs, "src")

\* what lines 443-529 put in the place of an iframe, a video or an audio
\* element
MediaWrapper(node) ==
    CASE node.name = "iframe" ->
           IF Attr(node.attrs, "src") = "" THEN <<node>>
           ELSE <<New("div", {<<"class", "embedded-content">>},
                      (IF Attr(node.attrs, "title") = "" THEN <<>>
                       ELSE <<New("p", {}, <<New("em", {}, NewText(<<Attr(node.attrs, "title")>>))>>)>>)
                      \o <<LinkParagraph("Embedded content:", Attr(node.attrs, "src"))>>)>>
      [] node.name = "video" ->
           <<New("div", {<<"class", "video-content">>},
                 (IF Attr(node.attrs, "poster") = "" THEN <<>>
                  ELSE <<New("p", {}, <<New("img", {<<"src", Attr(node.attrs, "poster")>>,
                                                    <<"alt", "Video thumbnail">>}, <<>>)>>)>>)
                 \o (IF FirstSource(node) = "" THEN <<>>
                     ELSE <<LinkParagraph("Video:", FirstSource(node))>>))>>
      [] OTHER ->
           <<New("div", {<<"class", "audio-content">>},
                 IF FirstSource(node) = ""
                 THEN <<New("p", {}, <<New("em", {},
                            NewText(<<"Audio content (source not available)">>))>>)>>
                 ELSE <<LinkParagraph("Audio:", FirstSource(node))>>)>>

\* iframes.forEach, videos.forEach and audios.forEach from the k-th element on
RECURSIVE RewriteMedia(_, _, _)
RewriteMedia(tree, ids, k) ==
    IF k > Len(ids) THEN tree
    ELSE IF ~HasNode(tree, ids[k]) THEN RewriteMedia(tree, ids, k + 1)
    ELSE RewriteMedia(ReplaceNode(tree, ids[k], MediaWrapper(NodeById(tree, ids[k]))), ids, k + 1)

\* the rewrite steps of lines 280-529, in their order
RewriteSteps ==
    <<"definitionLists", "details", "figures", "listItems", "nestedLists", "citations",
      "iframes", "videos", "audios">>

StepIndex(step) == CHOOSE k \in 1..Len(RewriteSteps) : RewriteSteps[k] = step

\* the elements of the container a step works on: what its querySelectorAll
\* returns
StepElements(tree, step) ==
    CASE step = "definitionLists" -> ByName(tree, {"dl"})
      [] step = "details" -> ByName(tree, {"details"})
      [] step = "figures" -> ByName(tree, {"figure"})
      [] step = "listItems" ->
           QuerySelectorAll(tree, LAMBDA n : IsDirectListItem(ElementNode(0, "div", {}, tree), n))
      [] step = "nestedLists" ->
           QuerySelectorAll(tree, LAMBDA n : IsNestedList(ElementNode(0, "div", {}, tree), n))
      [] step = "citations" -> ByName(tree, {"blockquote"})
      [] step = "iframes" -> ByName(tree, {"iframe"})
      [] step = "videos" -> ByName(tree, {"video"})
      [] OTHER -> ByName(tree, {"audio"})

\* the container after one step has worked on its elements
ApplyStep(tree, step, elements) ==
    CASE step = "definitionLists" -> RewriteDefinitionLists(tree, elements, 1)
      [] step = "details" -> RewriteDetails(tree, IdsOf(elements), 1)
      [] step = "figures" -> RewriteFigures(tree, IdsOf(elements), 1)
      [] step = "listItems" -> WrapListItems(tree, IdsOf(elements), 1)
      [] step = "nestedLists" ->
           RewriteNestedLists(tree, IdsOf(elements), 1, Len(Descendants(tree)))
      [] step = "citations" -> RewriteCitations(tree, IdsOf(elements), 1)
      [] OTHER -> RewriteMedia(tree, IdsOf(elements), 1)

\* the container after the steps k to last, in order
RECURSIVE RewriteFrom(_, _, _)
RewriteFrom(tree, k, last) ==
    IF k > last THEN tree
    ELSE Then(StepElements(tree, RewriteSteps[k]), LAMBDA elements :
         Then(Renumber(ApplyStep(tree, RewriteSteps[k], elements)), LAMBDA next :
         RewriteFrom(next, k + 1, last)))

\* the string handleUnusualStructures returns when nothing throws and every
\* loop of lines 300-302 has reached its exit, which it does for a
\* description that has no child node
handleUnusualStructures(h) ==
    IF h = <<>> THEN <<>>
    ELSE SerializeNodes(RewriteFrom(ParseHtml(h).kids, 1, Len(RewriteSteps)))

\* the steps in which an exception can be raised while the step works on one
\* of its elements: those that find an element when their turn comes; the
\* steps after the first are reached only when its loops have all exited
FailingSteps(h, loopsExit) ==
    {RewriteSteps[k] : k \in {j \in 1..(IF loopsExit THEN Len(RewriteSteps) ELSE 1) :
        StepElements(RewriteFrom(ParseHtml(h).kids, 1, j - 1), RewriteSteps[j]) # <<>>}}

(***************************************************************************)
(* complexStructureService.ts: processTable, processNestedList,            *)
(* processDefinitionList and processBlockquote, and                        *)
(* preProcessComplexStructures (markdownConversionService.ts lines         *)
(* 604-656), which applies them.                                           *)
(***************************************************************************)
DEFAULT_TABLE_OPTIONS == [alignCells |-> TRUE, preserveTableClasses |-> TRUE]

\* firstRow.cloneNode(true) with every td cell replaced by a th cell that
\* has the same content (lines 88-95)
RECURSIVE HeaderCells(_)
HeaderCells(nodes) ==
    IF nodes = <<>> THEN <<>>
    ELSE LET n == Head(nodes)
         IN  <<IF n.name = "td" THEN New("th", {}, HeaderCells(n.kids))
               ELSE [n EXCEPT !.id = 0, !.kids = HeaderCells(n.kids)]>>
             \o HeaderCells(Tail(nodes))

\* the rows of a NodeList with the rows that have moved out of them removed
MovedRows(rows, ids) ==
    [k \in 1..Len(rows) |-> [rows[k] EXCEPT !.kids = RemoveNodes(@, ids)]]

\* lines 70-100: the children of the table once it has a thead, given what
\* querySelector('thead') and querySelectorAll('tr') have found
EnsureHead(t, theads, rows) ==
    IF theads # <<>> \/ rows = <<>> THEN t.kids
    ELSE IF ByName(rows[1].kids, {"th"}) # <<>>
    THEN <<New("thead", {}, <<rows[1]>>)>> \o RemoveNodes(t.kids, {rows[1].id})
    ELSE <<New("thead", {}, HeaderCells(<<rows[1]>>))>> \o t.kids

\* the thead variable after line 100: the id of the element (0: the one
\* created), or NoNode for null
TheadOf(theads, rows) ==
    IF theads # <<>> THEN theads[1].id ELSE IF rows # <<>> THEN 0 ELSE NoNode

\* the rows of the NodeList whose parent is not the thead (line 109)
RemainingRows(t1, rows, thead) ==
    SelectIds(rows, {rows[k].id : k \in {j \in 1..Len(rows) : ParentId(t1, rows[j].id) # thead}})

\* lines 103-116: a table without a tbody gets one that holds those rows
EnsureBody(t1, remaining) ==
    IF ByName(t1.kids, {"tbody"}) # <<>> THEN t1
    ELSE [t1 EXCEPT !.kids = RemoveNodes(@, {remaining[k].id : k \in 1..Len(remaining)})
                             \o <<New("tbody", {},
                                      MovedRows(remaining,
                                                {remaining[k].id : k \in 1..Len(remaining)}))>>]

\* normalizeTableStructure(table): the table element afterwards
normalizeTableStructure(t) ==
    Then(ByName(t.kids, {"thead"}), LAMBDA theads :
    Then(ByName(t.kids, {"tr"}), LAMBDA rows :
    Then([t EXCEPT !.kids = EnsureHead(t, theads, rows)], LAMBDA t1 :
    Then(RemainingRows(t1, rows, TheadOf(theads, rows)), LAMBDA remaining :
    EnsureBody(t1, remaining)))))

\* window.getComputedStyle(cell).textAlign, for the style the environment
\* resolves: style maps the identity of a cell to its text-align value
ComputedTextAlign(style, n) == IF n.id \in DOMAIN style THEN style[n.id] ELSE ""

\* the style of the cells of an element that is in no document, as the clone
\* processTable works on is: no property resolves to a value
DetachedStyle == <<>>

\* what lines 130-146 leave as the attributes of one cell
AlignedAttrs(style, n) ==
    LET textAlign == ComputedTextAlign(style, n)
        a == IF textAlign \in {"center", "right", "left"}
             THEN SetAttr(n.attrs, "data-align", textAlign) ELSE n.attrs
    IN  IF ~HasAttr(a, "data-align") /\ Attr(a, "align") # ""
        THEN SetAttr(a, "data-align", Attr(a, "align")) ELSE a

\* processTableAlignments(table), on the children of the table
RECURSIVE processTableAlignments(_, _)
processTableAlignments(nodes, style) ==
    IF nodes = <<>> THEN <<>>
    ELSE LET n == Head(nodes)
         IN  <<[n EXCEPT !.attrs = IF n.name \in {"th", "td"} THEN AlignedAttrs(style, n) ELSE @,
                         !.kids = processTableAlignments(n.kids, style)]>>
             \o processTableAlignments(Tail(nodes), style)

\* cleanupTableAttributes: only data-align, rowspan and colspan are kept
RECURSIVE cleanupTableAttributes(_)
cleanupTableAttributes(nodes) ==
    IF nodes = <<>> THEN <<>>
    ELSE LET n == Head(nodes)
         IN  <<[n EXCEPT !.attrs = {p \in @ : p[1] \in {"data-align", "rowspan", "colspan"}},
                         !.kids = cleanupTableAttributes(n.kids)]>>
             \o cleanupTableAttributes(Tail(nodes))

\* processTable(tableElement, options): the clone it returns
processTable(t, options) ==
    Then(normalizeTableStructure(t), LAMBDA normal :
    Then(IF options.alignCells
         THEN [normal EXCEPT !.kids = processTableAlignments(@, DetachedStyle)] ELSE normal, LAMBDA aligned :
    CloneNodes(<<IF ~options.preserveTableClasses
                 THEN [aligned EXCEPT !.kids = cleanupTableAttributes(@)]
                 ELSE aligned>>)[1]))

\* level.toString()
LevelString(level) == AsString(ToDigits(level))

\* markNestedLevels(listElement, level)
RECURSIVE markNestedLevels(_, _)
markNestedLevels(list, level) ==
    LET MarkItem(item) ==
            IF item.name # "li" THEN item
            ELSE [item EXCEPT
                     !.attrs = SetAttr(@, "data-list-level", LevelString(level)),
                     !.kids = [j \in 1..Len(item.kids) |->
                                  IF item.kids[j].name \in {"ul", "ol"}
                                  THEN markNestedLevels(item.kids[j], level + 1)
                                  ELSE item.kids[j]]]
    IN  [list EXCEPT !.attrs = SetAttr(@, "data-list-level", LevelString(level)),
                     !.kids = [j \in 1..Len(list.kids) |-> MarkItem(list.kids[j])]]

\* processNestedList(listElement): the clone it returns
processNestedList(list) == CloneNodes(<<markNestedLevels(list, 0)>>)[1]

\* processDefinitionList: every dt and dd under the list is marked
RECURSIVE MarkDefinitions(_)
MarkDefinitions(nodes) ==
    IF nodes = <<>> THEN <<>>
    ELSE LET n == Head(nodes)
             a == CASE n.name = "dt" -> SetAttr(n.attrs, "data-def-term", "true")
                    [] n.name = "dd" -> SetAttr(n.attrs, "data-def-desc", "true")
                    [] OTHER -> n.attrs
         IN  <<[n EXCEPT !.attrs = a, !.kids = MarkDefinitions(n.kids)]>>
             \o MarkDefinitions(Tail(nodes))

processDefinitionList(dl) == CloneNodes(<<[dl EXCEPT !.kids = MarkDefinitions(@)]>>)[1]

\* markNestedBlockquotes(blockquoteElement, level)
RECURSIVE markNestedBlockquotes(_, _)
markNestedBlockquotes(quote, level) ==
    [quote EXCEPT !.attrs = SetAttr(@, "data-quote-level", LevelString(level)),
                  !.kids = [j \in 1..Len(quote.kids) |->
                               IF quote.kids[j].name = "blockquote"
                               THEN markNestedBlockquotes(quote.kids[j], level + 1)
                               ELSE quote.kids[j]]]

processBlockquote(quote) == CloneNodes(<<markNestedBlockquotes(quote, 0)>>)[1]

\* element.parentElement?.closest(selector): whether an ancestor of the
\* node id, in the tree under root, has one of the names
RECURSIVE HasAncestor(_, _, _)
HasAncestor(root, id, names) ==
    LET pid == ParentId(root, id)
    IN  /\ pid # root.id
        /\ \/ NodeById(root.kids, pid).name \in names
           \/ HasAncestor(root, pid, names)

\* the processing function of preProcessComplexStructures for an element
Processed(node) ==
    CASE node.name = "table" -> processTable(node, DEFAULT_TABLE_OPTIONS)
      [] node.name \in {"ul", "ol"} -> processNestedList(node)
      [] node.name = "dl" -> processDefinitionList(node)
      [] OTHER -> processBlockquote(node)

\* elements.forEach(e => e.parentNode?.replaceChild(processed, e)) from the
\* k-th element on: an element that is no longer in the container, because
\* an element around it has been replaced by its clone, changes nothing
RECURSIVE ReplaceProcessed(_, _, _)
ReplaceProcessed(tree, nodes, k) ==
    IF k > Len(nodes) THEN tree
    ELSE ReplaceProcessed(ReplaceNode(tree, nodes[k].id, <<Processed(nodes[k])>>), nodes, k + 1)

\* the elements with one of the names that have no ancestor with one of them
TopLevel(tree, names) ==
    LET root == ElementNode(0, "div", {}, tree)
    IN  QuerySelectorAll(tree, LAMBDA n : n.name \in names /\ ~HasAncestor(root, n.id, names))

\* the string preProcessComplexStructures returns when nothing throws
preProcessComplexStructures(h) ==
    Then(ParseHtml(h).kids, LAMBDA t0 :
    Then(Renumber(ReplaceProcessed(t0, ByName(t0, {"table"}), 1)), LAMBDA t1 :
    Then(Renumber(ReplaceProcessed(t1, TopLevel(t1, {"ul", "ol"}), 1)), LAMBDA t2 :
    Then(Renumber(ReplaceProcessed(t2, ByName(t2, {"dl"}), 1)), LAMBDA t3 :
    SerializeNodes(ReplaceProcessed(t3, TopLevel(t3, {"blockquote"}), 1))))))

(***************************************************************************)
(* The state of the program.                                               *)
(***************************************************************************)
VARIABLES
    \* MarkdownConversionService
    opts,            \* this.options, which the rules of this.turndownService depend on
    preserved,       \* this._preservedContent: the entries in insertion order
    \* convertToMarkdown: the position in the method and its locals
    pc,
    input,           \* the argument html
    html,            \* the HTML string the next stage receives
    frontMatter,     \* the frontMatter local: null, or a string
    markdown,        \* the Markdown string the next stage receives
    result,          \* the returned string
    trace,           \* the stages this call has entered, in order
    calls,           \* the number of calls made on this instance
    \* handleUnusualStructures: the loop that copies the children of a dd
    pending,         \* the term and description pairs the loops have yet to finish
    desc,            \* desc.childNodes
    paragraph,       \* paragraph.childNodes
    failedStep,      \* where the try block of lines 275-530 raised an exception, if it did
    \* errorHandler
    recentErrors,
    \* postProcessMarkdown applied on its own
    ppIn,            \* the first argument
    ppOut,           \* the results of the successive applications
    \* normalizeTableStructure applied on its own
    table,           \* the table element
    tableIn,         \* the table element before the call
    tablePc,
    computedStyle,   \* the text-align the environment resolves for each cell
    \* processTable, processNestedList, processDefinitionList and
    \* processBlockquote applied on their own
    heap,            \* the elements by reference: heap[r] is the subtree of r
    element,         \* the reference passed to the function
    elementIn,       \* the subtree of the argument before the call
    clone,           \* the local that holds the clone (0: not assigned yet)
    returned,        \* the reference returned (0: none yet)
    processPc

serviceVars == <<opts, preserved>>
callVars == <<pc, input, html, frontMatter, markdown, result, trace, calls>>
loopVars == <<pending, desc, paragraph, failedStep>>
postVars == <<ppIn, ppOut>>
tableVars == <<table, tableIn, tablePc, computedStyle>>
processVars == <<heap, element, elementIn, clone, returned, processPc>>
vars == <<serviceVars, callVars, loopVars, recentErrors, postVars, tableVars, processVars>>

\* a service on which no call has been made yet, and an empty error log
ServiceIdle ==
    /\ preserved = <<>>
    /\ pc = "idle"
    /\ input = <<>>
    /\ html = <<>>
    /\ frontMatter = Null
    /\ markdown = <<>>
    /\ result = <<>>
    /\ trace = <<>>
    /\ calls = 0
    /\ pending = <<>>
    /\ desc = <<>>
    /\ paragraph = <<>>
    /\ failedStep = "none"
    /\ recentErrors = <<>>

(***************************************************************************)
(* this.turndownService.turndown(htmlToConvert) (markdownConversionService *)
(* line 572): the Turndown service (turndown 7.1) that the constructor     *)
(* builds with the options of lines 82-92 and the rules of lines 662-762   *)
(* and of configureCustomRules.                                            *)
(***************************************************************************)
BlockElements ==
    {"address", "article", "aside", "audio", "blockquote", "body", "dd", "div", "dl",
     "dt", "figcaption", "figure", "footer", "form", "h1", "h2", "h3", "h4", "h5", "h6",
     "header", "hr", "li", "main", "nav", "ol", "p", "pre", "section", "table", "tbody",
     "td", "tfoot", "th", "thead", "tr", "ul"}
VoidElements == {"br", "hr", "img", "input", "source"}
MeaningfulWhenBlank ==
    {"a", "table", "thead", "tbody", "tfoot", "th", "td", "iframe", "audio", "video"}

IsBlock(node) == node.name \in BlockElements

\* text.replace(/[ \r\n\t]+/g, ' ')
RECURSIVE CollapseRuns(_)
CollapseRuns(t) ==
    IF t = <<>> THEN <<>>
    ELSE IF Head(t) \in Ws
    THEN <<" ">> \o CollapseRuns(Sub(t, 1 + RunIn(t, 1, Ws), Len(t)))
    ELSE <<Head(t)>> \o CollapseRuns(Tail(t))

\* data.replace(/ $/, '')
DropTrailingSpace(t) == IF t # <<>> /\ t[Len(t)] = " " THEN Sub(t, 1, Len(t) - 1) ELSE t

\* the nodes collapseWhitespace visits, in the order it visits them: an
\* element that has children is visited again after its last child; the
\* children of a pre element are not visited
RECURSIVE Visits(_)
Visits(nodes) ==
    IF nodes = <<>> THEN <<>>
    ELSE LET n == Head(nodes)
         IN  (IF IsElement(n) /\ n.name # "pre" /\ n.kids # <<>>
              THEN <<n>> \o Visits(n.kids) \o <<n>>
              ELSE <<n>>)
             \o Visits(Tail(nodes))

NoText == 0 - 1

\* one turn of the loop of collapseWhitespace, at the k-th visited node; st
\* holds prevText (the id of a text node, or NoText), keepLeadingWs, the new
\* data of the text nodes and the ids of the removed nodes
RECURSIVE CollapseFrom(_, _, _)
CollapseFrom(v, k, st) ==
    IF k > Len(v)
    THEN IF st.prevText = NoText THEN st
         ELSE LET t == DropTrailingSpace(st.data[st.prevText])
              IN  [st EXCEPT !.data = (st.prevText :> t) @@ @,
                             !.removed = IF t = <<>> THEN @ \cup {st.prevText} ELSE @]
    ELSE LET n == v[k]
         IN  IF n.name = "#text"
             THEN LET c == CollapseRuns(n.text)
                      atEdge == \/ st.prevText = NoText
                                \/ LET q == st.data[st.prevText] IN q # <<>> /\ q[Len(q)] = " "
                      t == IF atEdge /\ ~st.keepLeadingWs /\ c # <<>> /\ c[1] = " "
                           THEN Tail(c) ELSE c
                  IN  IF t = <<>>
                      THEN CollapseFrom(v, k + 1, [st EXCEPT !.removed = @ \cup {n.id}])
                      ELSE CollapseFrom(v, k + 1, [st EXCEPT !.data = (n.id :> t) @@ @,
                                                             !.prevText = n.id])
             ELSE IF n.name = "#comment"
             THEN CollapseFrom(v, k + 1, [st EXCEPT !.removed = @ \cup {n.id}])
             ELSE IF IsBlock(n) \/ n.name = "br"
             THEN CollapseFrom(v, k + 1,
                      [st EXCEPT !.data = IF st.prevText = NoText THEN @
                                          ELSE (st.prevText :> DropTrailingSpace(@[st.prevText])) @@ @,
                                 !.prevText = NoText,
                                 !.keepLeadingWs = FALSE])
             ELSE IF n.name \in VoidElements
             THEN CollapseFrom(v, k + 1, [st EXCEPT !.prevText = NoText, !.keepLeadingWs = TRUE])
             ELSE IF st.prevText # NoText
             THEN CollapseFrom(v, k + 1, [st EXCEPT !.keepLeadingWs = FALSE])
             ELSE CollapseFrom(v, k + 1, st)

\* the tree with the text nodes as collapseWhitespace leaves them
RECURSIVE ApplyCollapse(_, _)
ApplyCollapse(nodes, st) ==
    IF nodes = <<>> THEN <<>>
    ELSE LET n == Head(nodes)
         IN  (IF n.id \in st.removed THEN <<>>
              ELSE IF n.name = "#text" /\ n.id \in DOMAIN st.data
              THEN <<[n EXCEPT !.text = st.data[n.id]]>>
              ELSE IF IsElement(n) /\ n.name # "pre"
              THEN <<[n EXCEPT !.kids = ApplyCollapse(n.kids, st)]>>
              ELSE <<n>>)
             \o ApplyCollapse(Tail(nodes), st)

collapseWhitespace(nodes) ==
    ApplyCollapse(nodes,
        CollapseFrom(Visits(nodes), 1,
            [prevText |-> NoText, keepLeadingWs |-> FALSE, data |-> <<>>, removed |-> {}]))

\* TurndownService.prototype.escape: a backslash before every backslash,
\* asterisk, backquote, bracket and underscore of the text, and before what
\* would start a list item, a heading, a rule, a fence or a quotation at the
\* start of the text
EscapedEverywhere == {"\\", "*", Bq, "[", "]", "_"}

EscapeAt(t, i) ==
    LET digits == RunIn(t, 1, DigitSet)
        hashes == RunIn(t, 1, {"#"})
    IN  IF t[i] \in EscapedEverywhere THEN [len |-> 1, rep |-> <<"\\", t[i]>>]
        ELSE IF i = 1 /\ (\/ t[1] \in {"-", ">", "="}
                          \/ StartsAt(t, 1, <<"+", " ">>)
                          \/ StartsAt(t, 1, <<"~", "~", "~">>)
                          \/ (hashes \in 1..6 /\ StartsAt(t, hashes + 1, <<" ">>)))
        THEN [len |-> 1, rep |-> <<"\\", t[1]>>]
        ELSE IF i = digits + 1 /\ digits >= 1 /\ StartsAt(t, i, <<".", " ">>)
        THEN [len |-> 1, rep |-> <<"\\", ".">>]
        ELSE NoMatch

Escape(t) == ReplaceAll(t, [i \in 1..Len(t) |-> EscapeAt(t, i)])

\* isBlank(node)
IsBlank(node) ==
    /\ node.name \notin VoidElements
    /\ node.name \notin MeaningfulWhenBlank
    /\ \A k \in 1..Len(TextContentOf(<<node>>)) : TextContentOf(<<node>>)[k] \in Ws
    /\ \A k \in 1..Len(Descendants(node.kids)) :
           Descendants(node.kids)[k].name \notin VoidElements \cup MeaningfulWhenBlank

\* isFlankedByWhitespace(side, node): the sibling on that side is a text
\* node or an inline element whose text has a space at the near end
FlankedBy(sibling, atEnd) ==
    LET t == TextContentOf(<<sibling>>)
    IN  /\ sibling.name # "#comment"
        /\ ~IsBlock(sibling)
        /\ t # <<>>
        /\ (IF atEnd THEN t[Len(t)] ELSE t[1]) = " "

\* flankingWhitespace(node): the white space at the two ends of the text of
\* an inline element, which replacementForNode moves out of the element
FlankingWhitespace(kids, i) ==
    LET t == TextContentOf(<<kids[i]>>)
        a == RunIn(t, 1, Ws)
        b == IF a = Len(t) THEN 0 ELSE RunBack(t, Len(t), Ws)
    IN  IF IsBlock(kids[i]) THEN [leading |-> <<>>, trailing |-> <<>>]
        ELSE [leading |-> IF a > 0 /\ i > 1 /\ FlankedBy(kids[i - 1], TRUE)
                          THEN <<>> ELSE Sub(t, 1, a),
              trailing |-> IF b > 0 /\ i < Len(kids) /\ FlankedBy(kids[i + 1], FALSE)
                           THEN <<>> ELSE Sub(t, Len(t) - b + 1, Len(t))]

\* join(output, replacement): at most two newlines where the two meet
Join(output, replacement) ==
    LET a == RunBack(output, Len(output), {"\n"})
        b == RunIn(replacement, 1, {"\n"})
    IN  Sub(output, 1, Len(output) - a) \o Repeat("\n", Min(Max(a, b), 2))
        \o Sub(replacement, b + 1, Len(replacement))

\* the rules in the order addRule is called: configureBasicRules (the two
\* conditional rules when their option is set), then configureCustomRules.
\* Only the rules whose elements a document of the model can hold are here.
\* The image rule of configureBasicRules and the one of configureMediaRules
\* have the same key, "images"; the first is "imagesWithSize" here
AddedRules(o) ==
    <<"lineBreaks">>
    \o (IF o.preserveImageSize THEN <<"imagesWithSize">> ELSE <<>>)
    \o <<"codeBlocks">>
    \o (IF o.preserveTableAlignment THEN <<"tableAlignedCell">> ELSE <<>>)
    \o <<"tableCell", "tableRow", "tableHeader", "table", "fencedCodeBlock",
         "details", "summary", "lineBreak", "taskListItems", "definitionList",
         "definitionTerm", "definitionDescription", "images", "blockquotes">>

\* the rules of CommonMark that Turndown has from the start
CommonMarkRules == <<"paragraph", "list", "listItem", "emphasis", "strong">>

Reverse(q) == [k \in 1..Len(q) |-> q[Len(q) - k + 1]]

\* Rules.add is this.array.unshift(rule): the rule added last is looked up
\* first, and the rules of CommonMark after every added rule
RuleOrder(o) == Reverse(AddedRules(o)) \o CommonMarkRules

\* the filter of a rule
Filter(rule, node) ==
    CASE rule \in {"lineBreaks", "lineBreak"} -> node.name = "br"
      [] rule \in {"imagesWithSize", "images"} -> node.name = "img"
      [] rule = "codeBlocks" -> node.name = "pre"
      [] rule = "tableAlignedCell" ->
            node.name \in {"th", "td"} /\ HasAttr(node.attrs, "data-align")
      [] rule = "tableCell" -> node.name \in {"th", "td"}
      [] rule = "tableRow" -> node.name = "tr"
      [] rule = "tableHeader" -> node.name = "thead"
      [] rule = "table" -> node.name = "table"
      [] rule = "fencedCodeBlock" ->
            node.name = "pre" /\ node.kids # <<>> /\ node.kids[1].name = "code"
      [] rule = "details" -> node.name = "details"
      [] rule = "summary" -> node.name = "summary"
      [] rule = "taskListItems" ->
            /\ node.name = "li"
            /\ node.kids # <<>>
            /\ node.kids[1].name = "input"
            /\ Attr(node.kids[1].attrs, "type") = "checkbox"
      [] rule = "definitionList" -> node.name = "dl"
      [] rule = "definitionTerm" -> node.name = "dt"
      [] rule = "definitionDescription" -> node.name = "dd"
      [] rule = "blockquotes" -> node.name = "blockquote"
      [] rule = "paragraph" -> node.name = "p"
      [] rule = "list" -> node.name \in {"ul", "ol"}
      [] rule = "listItem" -> node.name = "li"
      [] rule = "emphasis" -> node.name \in {"em", "i"}
      [] rule = "strong" -> node.name \in {"strong", "b"}
      [] OTHER -> FALSE

\* the rule rules.forNode(node) finds: the blank rule, then the first rule
\* of the array whose filter accepts the node, then the default rule
RuleFor(node, parent) ==
    LET order == RuleOrder(opts)
        found == {k \in 1..Len(order) : Filter(order[k], node)}
    IN  IF IsBlank(node) THEN "blank"
        ELSE IF found = {} THEN "default"
        ELSE order[Least(found)]

\* content.trim().split('\n').map(line => `> ${line}`).join('\n')
QuoteLines(content) ==
    <<">", " ">> \o ReplaceAll(content, [i \in 1..Len(content) |->
        IF content[i] = "\n" THEN [len |-> 1, rep |-> <<"\n", ">", " ">>] ELSE NoMatch])

\* the content of a list item: .replace(/^\n+/, '').replace(/\n+$/, '\n')
\* .replace(/\n/gm, '\n    ')
ListItemContent(content) ==
    LET a == RunIn(content, 1, {"\n"})
        c1 == Sub(content, a + 1, Len(content))
        b == RunBack(c1, Len(c1), {"\n"})
        c2 == IF b > 0 THEN Sub(c1, 1, Len(c1) - b) \o <<"\n">> ELSE c1
    IN  ReplaceAll(c2, [i \in 1..Len(c2) |->
            IF c2[i] = "\n" THEN [len |-> 1, rep |-> <<"\n", " ", " ", " ", " ">>]
            ELSE NoMatch])

\* codeContent.replace(/^\n+|\n+$/g, '')
StripNewlines(t) ==
    LET a == RunIn(t, 1, {"\n"})
        b == IF a = Len(t) THEN 0 ELSE RunBack(t, Len(t), {"\n"})
    IN  Sub(t, a + 1, Len(t) - b)

\* className.match(/language-(\w+)/) and className.replace(/^language-/, '')
\* for the classes of the model
LanguageOf(class) ==
    CASE class = "language-js" -> <<"j", "s">>
      [] class = "language-JS" -> <<"J", "S">>
      [] OTHER -> <<>>

\* output.replace(/\|\s*$/, '') on a trimmed string
DropLastPipe(t) == IF t # <<>> /\ t[Len(t)] = "|" THEN Sub(t, 1, Len(t) - 1) ELSE t

\* content.replace(/^\s*<input[^>]*>\s*/i, '')
StripCheckbox(content) ==
    LET a == RunIn(content, 1, Ws)
        close == IndexFrom(content, <<">">>, a + 7)
    IN  IF StartsAt(ToLower(content), a + 1, <<"<", "i", "n", "p", "u", "t">>) /\ close # 0
        THEN Sub(content, close + 1 + RunIn(content, close + 1, Ws), Len(content))
        ELSE content

\* element.querySelector('input[type="checkbox"]').checked, false when the
\* element holds no checkbox
IsChecked(node) ==
    LET boxes == QuerySelectorAll(node.kids,
                     LAMBDA n : n.name = "input" /\ Attr(n.attrs, "type") = "checkbox")
    IN  boxes # <<>> /\ HasAttr(boxes[1].attrs, "checked")

\* the replacement of the two image rules
ImageMarkdown(attrs) ==
    LET alt == Attr(attrs, "alt")
        src == Attr(attrs, "src")
        title == Attr(attrs, "title")
        width == Attr(attrs, "width")
        height == Attr(attrs, "height")
        dimensions == IF width # "" \/ height # ""
                      THEN <<" ", "=", width, "x", height>> ELSE <<>>
        titlePart == IF title # "" THEN <<" ", "\"", title, "\"">> ELSE <<>>
        nonEmpty(q) == SelectSeq(q, LAMBDA c : c # "")
    IN  IF src = "" THEN <<>>
        ELSE nonEmpty(<<"!", "[", alt, "]", "(", src>> \o titlePart \o dimensions \o <<")">>)

\* the replacement of tableAlignedCell
AlignedCell(align, content) ==
    LET prefix == IF align \in {"center", "left"} THEN <<" ", ":">> ELSE <<" ">>
        suffix == IF align \in {"center", "right"} THEN <<":", " ", "|">> ELSE <<" ", "|">>
    IN  prefix \o Trim(content) \o suffix

\* rule.replacement(content, node, options) of the rule RuleFor finds; kids
\* are the children of the parent of the node, the node is kids[i];
\* listParents is countAncestors(node, 'ul, ol')
Replacement(rule, content, kids, i, parent, listParents) ==
    LET node == kids[i]
        block(c) == <<"\n", "\n">> \o c \o <<"\n", "\n">>
    IN  CASE rule = "blank" -> IF IsBlock(node) THEN <<"\n", "\n">> ELSE <<>>
          [] rule = "blockquotes" -> block(QuoteLines(Trim(content)))
          [] rule = "definitionDescription" -> <<"\n", ":", " ">> \o content
          [] rule = "definitionTerm" -> <<"\n", "\n">> \o content
          [] rule = "definitionList" -> block(content)
          [] rule \in {"lineBreak", "lineBreaks"} -> <<" ", " ", "\n">>
          [] rule \in {"images", "imagesWithSize"} -> ImageMarkdown(node.attrs)
          [] rule = "tableAlignedCell" -> AlignedCell(Attr(node.attrs, "data-align"), content)
          [] rule = "taskListItems" ->
                <<"\n">> \o Repeat(" ", listParents * 2)
                \o (IF IsChecked(node) THEN <<"-", " ", "[", "x", "]", " ">>
                    ELSE <<"-", " ", "[", " ", "]", " ">>)
                \o StripCheckbox(content)
          [] rule = "summary" -> <<"\n", "<summary>">> \o content \o <<"</summary>", "\n">>
          [] rule = "details" ->
                <<"\n", "\n", "<details>", "\n">> \o content \o <<"</details>", "\n", "\n">>
          [] rule = "fencedCodeBlock" ->
                <<"\n", "\n">> \o Fence \o LanguageOf(Attr(node.kids[1].attrs, "class"))
                \o <<"\n">> \o StripNewlines(TextContentOf(<<node>>)) \o <<"\n">> \o Fence
                \o <<"\n", "\n">>
          [] rule = "codeBlocks" ->
                <<"\n", "\n">> \o Fence \o <<"\n">> \o TextContentOf(<<node>>) \o <<"\n">>
                \o Fence \o <<"\n", "\n">>
          [] rule = "table" -> block(content)
          [] rule = "tableHeader" ->
                LET rows == QuerySelectorAll(parent.kids, LAMBDA n : n.name = "tr")
                    cells == QuerySelectorAll(rows[1].kids, LAMBDA n : n.name \in {"th", "td"})
                    RECURSIVE Dashes(_)
                    Dashes(n) == IF n = 0 THEN <<>>
                                 ELSE <<" ", "-", "-", "-", " ", "|">> \o Dashes(n - 1)
                IN  IF rows = <<>> THEN content
                    ELSE content \o <<"|">> \o Dashes(Len(cells)) \o <<"\n">>
          [] rule = "tableRow" -> <<"|">> \o DropLastPipe(Trim(content)) \o <<"\n">>
          [] rule = "tableCell" -> <<" ">> \o Trim(content) \o <<" ", "|">>
          [] rule = "paragraph" -> block(content)
          [] rule = "list" ->
                LET e == ElementKids(parent.kids)
                IN  IF parent.name = "li" /\ e[Len(e)].id = node.id
                    THEN <<"\n">> \o content
                    ELSE block(content)
          [] rule = "listItem" ->
                LET c == ListItemContent(content)
                    e == ElementKids(kids)
                    index == CHOOSE k \in 1..Len(e) : e[k].id = node.id
                    prefix == IF parent.name = "ol"
                              THEN ToDigits(index) \o <<".", " ", " ">>
                              ELSE <<"-", " ", " ", " ">>
                IN  prefix \o c
                    \o (IF i < Len(kids) /\ (c = <<>> \/ c[Len(c)] # "\n")
                        THEN <<"\n">> ELSE <<>>)
          [] rule = "emphasis" -> IF Trim(content) = <<>> THEN <<>>
                                  ELSE <<"*">> \o content \o <<"*">>
          [] rule = "strong" -> IF Trim(content) = <<>> THEN <<>>
                                ELSE <<"*", "*">> \o content \o <<"*", "*">>
          [] OTHER -> IF IsBlock(node) THEN block(content) ELSE content

\* process(parentNode) from the i-th child on, output being what the
\* children before it gave; inCode: the parent is, or is inside, a code
\* element; lists: the number of ul and ol elements among the parent and
\* its ancestors
\* replacementForNode(node), inner being process(node)
ReplacementForNode(parent, i, inner, lists) ==
    LET node == parent.kids[i]
        ws == FlankingWhitespace(parent.kids, i)
        content == IF ws.leading # <<>> \/ ws.trailing # <<>> THEN Trim(inner) ELSE inner
    IN  ws.leading
        \o Replacement(RuleFor(node, parent), content, parent.kids, i, parent, lists)
        \o ws.trailing

RECURSIVE Process(_, _, _, _, _)
Process(parent, i, output, inCode, lists) ==
    IF i > Len(parent.kids) THEN output
    ELSE IF parent.kids[i].name = "#text"
    THEN Then(Join(output, IF inCode THEN parent.kids[i].text
                           ELSE Escape(parent.kids[i].text)),
              LAMBDA joined : Process(parent, i + 1, joined, inCode, lists))
    ELSE IF parent.kids[i].name = "#comment"
    THEN Process(parent, i + 1, output, inCode, lists)
    ELSE Then(Process(parent.kids[i], 1, <<>>, inCode \/ parent.kids[i].name = "code",
                      IF parent.kids[i].name \in {"ul", "ol"} THEN lists + 1 ELSE lists),
              LAMBDA inner :
         Then(ReplacementForNode(parent, i, inner, lists), LAMBDA replacement :
         Then(Join(output, replacement), LAMBDA joined :
         Process(parent, i + 1, joined, inCode, lists))))

\* turndown(input): the input parsed, white space collapsed, the tree
\* converted, and output.replace(/^[\t\r\n]+/, '').replace(/[\t\r\n\s]+$/, '')
turndown(h) ==
    IF h = <<>> THEN <<>>
    ELSE LET root == ElementNode(0, "x-turndown", {}, collapseWhitespace(ParseHtml(h).kids))
             output == Process(root, 1, <<>>, FALSE, 0)
             a == RunIn(output, 1, {"\t", "\r", "\n"})
             b == IF a = Len(output) THEN 0 ELSE RunBack(output, Len(output), Ws)
         IN  Sub(output, a + 1, Len(output) - b)

(***************************************************************************)
(* errorHandler: logError (src/unnamed/part_000 lines 39-70).              *)
(***************************************************************************)
MAX_ERROR_LOGS == 10
MARKDOWN_CONVERSION == "markdown-conversion"

\* recentErrors.push(errorLog); if (recentErrors.length > MAX_ERROR_LOGS)
\* recentErrors.shift()
logError(log, category, message) ==
    LET pushed == Append(log, [category |-> category, message |-> message])
    IN  IF Len(pushed) > MAX_ERROR_LOGS THEN Tail(pushed) ELSE pushed

(***************************************************************************)
(* convertToMarkdown (markdownConversionService.ts lines 549-596), one     *)
(* action for each method it calls.  A call of the DOM or of the Turndown  *)
(* service can throw: the action of a method that makes such calls has the *)
(* case where one does.                                                    *)
(***************************************************************************)
\* the documents of the model
Paragraph(chars) == Element("p", {}, Text(chars))
FrontMatterBlock(body) == Comment(<<" ">> \o FrontMatterKeyword \o <<"\n">> \o body \o <<"\n">>)
RECURSIVE Times(_, _)
Times(s, n) == IF n = 0 THEN <<>> ELSE s \o Times(s, n - 1)

\* <p>Hello <b>world</b></p>
StrongDocument ==
    Element("p", {}, Text(<<"H", "e", "l", "l", "o", " ">>)
                     \o Element("b", {}, Text(<<"w", "o", "r", "l", "d">>)))
\* <pre><code class="language-js">let x=1;</code></pre>
CodeDocument ==
    Element("pre", {}, Element("code", {<<"class", "language-js">>},
                               Text(<<"l", "e", "t", " ", "x", "=", "1", ";">>)))
\* <ul><li><input type="checkbox" checked> Done</li></ul>
TaskDocument ==
    Element("ul", {}, Element("li", {},
        Element("input", {<<"type", "checkbox">>, <<"checked", "">>}, <<>>)
        \o Text(<<" ", "D", "o", "n", "e">>)))
\* <ul><li>a<ul><li>b<ul><li>c</li></ul></li></ul></li></ul>
NestedDocument ==
    Element("ul", {}, Element("li", {}, Text(<<"a">>)
        \o Element("ul", {}, Element("li", {}, Text(<<"b">>)
            \o Element("ul", {}, Element("li", {}, Text(<<"c">>)))))))
\* <p><img src="u" width="2"></p>
ImageDocument == Element("p", {}, Element("img", {<<"src", "u">>, <<"width", "2">>}, <<>>))
\* <table><tr><th>A</th><th>B</th></tr><tr><td>1</td><td>2</td></tr></table>
HeaderDocument ==
    Element("table", {},
        Element("tr", {}, Element("th", {}, Text(<<"A">>)) \o Element("th", {}, Text(<<"B">>)))
        \o Element("tr", {}, Element("td", {}, Text(<<"1">>))
                             \o Element("td", {}, Text(<<"2">>))))
\* <table><thead><tr><th data-align="right">A</th></tr></thead>
\* <tbody><tr><td>1</td></tr></tbody></table>
AlignedDocument ==
    Element("table", {},
        Element("thead", {}, Element("tr", {},
            Element("th", {<<"data-align", "right">>}, Text(<<"A">>))))
        \o Element("tbody", {}, Element("tr", {}, Element("td", {}, Text(<<"1">>)))))

\* <dl><dt>T</dt></dl>
LoneTermDocument == Element("dl", {}, Element("dt", {}, Text(<<"T">>)))

\* <p>$a*b$</p>
InlineMathDocument == Paragraph(<<"$", "a", "*", "b", "$">>)

\* <!-- @preserve x -->
PreserveCommentDocument == Comment(<<" ">> \o PreserveKeyword \o <<" ", "x", " ">>)

\* <p>$$E$$</p>
BlockMathDocument == Paragraph(<<"$", "$", "E", "$", "$">>)

\* <p>a</p><pre class="mermaid">g</pre>
MermaidDocument ==
    Paragraph(<<"a">>) \o Element("pre", {<<"class", "mermaid">>}, Text(<<"g">>))

\* <iframe></iframe>
IframeDocument == Element("iframe", {}, <<>>)

\* <video src="v"></video>
VideoDocument == Element("video", {<<"src", "v">>}, <<>>)

\* <audio><source src="s"></audio>
AudioDocument == Element("audio", {}, Element("source", {<<"src", "s">>}, <<>>))

\* <details><summary>S</summary>b</details><audio></audio>
TwoStructuresDocument ==
    Element("details", {}, Element("summary", {}, Text(<<"S">>)) \o Text(<<"b">>))
    \o Element("audio", {}, <<>>)

\* <ul><li><div><ul><li>b</li></ul></div></li></ul>
WrappedListDocument ==
    Element("ul", {}, Element("li", {},
        Element("div", {}, Element("ul", {}, Element("li", {}, Text(<<"b">>))))))

\* <ul><li>a</li><ul><li>b</li></ul></ul>
DirectListDocument ==
    Element("ul", {}, Element("li", {}, Text(<<"a">>))
                      \o Element("ul", {}, Element("li", {}, Text(<<"b">>))))

Documents ==
    << <<>>,
       Text(<<" ">>),
       Paragraph(<<"H", "i">>),
       FrontMatterBlock(<<"t", ":", "x", " ">>) \o Paragraph(<<"a">>),
       FrontMatterBlock(<<>>) \o Paragraph(<<"a">>),
       InlineMathDocument,
       PreserveCommentDocument,
       MermaidDocument,
       Element("dl", {}, Element("dt", {}, Text(<<"T">>)) \o Element("dd", {}, Text(<<"D">>))),
       Element("dl", {}, Element("dt", {}, Text(<<"T">>)) \o Element("dd", {}, <<>>)
                         \o Element("dd", {}, <<>>)),
       Element("details", {}, Element("summary", {}, Text(<<"S">>)) \o Text(<<"b">>)),
       Element("ul", {}, Element("li", {}, Text(<<"a">>)
                                           \o Element("ul", {}, Element("li", {}, Text(<<"b">>)))
                                           \o Text(<<"c">>))),
       Paragraph(Times(<<"$", "a", "$">>, 11)),
       BlockMathDocument,
       Element("table", {}, Element("tbody", {},
           Element("tr", {}, Element("td", {}, Text(<<"A">>)))
           \o Element("tr", {}, Element("td", {}, Text(<<"1">>))))),
       StrongDocument, CodeDocument, TaskDocument, NestedDocument, ImageDocument,
       HeaderDocument, AlignedDocument, LoneTermDocument, WrappedListDocument,
       DirectListDocument, IframeDocument, VideoDocument, AudioDocument,
       TwoStructuresDocument >>

\* the stages in the order normalizer, rewriter, extraction
StageAfterDescribed(stage, processComplexStructures) ==
    CASE stage = "extractFrontMatter" -> "preProcessComplexStructures"
      [] stage = "preProcessComplexStructures" -> "handleUnusualStructures"
      [] stage = "handleUnusualStructures" -> "preserveSpecialContent"
      [] stage = "preserveSpecialContent" -> "turndown"
      [] stage = "turndown" -> "restoreSpecialContent"
      [] stage = "restoreSpecialContent" -> "postProcessMarkdown"
      [] stage = "postProcessMarkdown" -> "attachFrontMatter"
      [] OTHER -> "done"

\* the stage that follows a stage of convertToMarkdown (lines 555-585)
StageAfter(stage, processComplexStructures) ==
    CASE stage = "extractFrontMatter" -> "preserveSpecialContent"
      [] stage = "preserveSpecialContent" -> "handleUnusualStructures"
      [] stage = "handleUnusualStructures" ->
            IF processComplexStructures THEN "preProcessComplexStructures" ELSE "turndown"
      [] stage = "preProcessComplexStructures" -> "turndown"
      [] stage = "turndown" -> "restoreSpecialContent"
      [] stage = "restoreSpecialContent" -> "postProcessMarkdown"
      [] stage = "postProcessMarkdown" -> "attachFrontMatter"
      [] OTHER -> "done"

\* the string the catch clause of convertToMarkdown returns (line 594)
FailureNotice ==
    CommentOpen \o <<" ", "Markdown conversion failed", " ">> \o CommentClose \o <<"\n", "\n">>
\* the notice alone, without the input
NoticeOnly(h) == FailureNotice
ConversionFailed(h) == FailureNotice \o Chars(h)

\* the string lines 581-585 return
AttachFrontMatter(fm, cleaned) ==
    IF ~fm.isNull /\ fm.text # <<>>
    THEN <<"-", "-", "-", "\n">> \o fm.text \o <<"\n", "-", "-", "-", "\n", "\n">> \o cleaned
    ELSE cleaned

\* DEFAULT_MARKDOWN_OPTIONS (lines 38-54): the options the model tells apart
DEFAULT_MARKDOWN_OPTIONS ==
    [preserveImageSize |-> TRUE, preserveTableAlignment |-> TRUE,
     preserveFrontMatter |-> TRUE, processComplexStructures |-> TRUE]

\* the options the services of the model are built with (lines 72-79)
Options ==
    {[DEFAULT_MARKDOWN_OPTIONS EXCEPT !.preserveFrontMatter = f, !.processComplexStructures = c] :
         f \in BOOLEAN, c \in BOOLEAN}
    \cup {[DEFAULT_MARKDOWN_OPTIONS EXCEPT !.preserveImageSize = FALSE],
          [DEFAULT_MARKDOWN_OPTIONS EXCEPT !.preserveTableAlignment = FALSE]}

Init ==
    /\ opts \in Options
    /\ ServiceIdle
    /\ ppIn = <<>> /\ ppOut = <<>>
    /\ table = <<>> /\ tableIn = <<>> /\ tablePc = "idle" /\ computedStyle = <<>>
    /\ heap = <<>> /\ element = 0 /\ elementIn = <<>> /\ clone = 0 /\ returned = 0
    /\ processPc = "idle"

\* a caller calls convertToMarkdown(html) with one of the documents, on a
\* service on which fewer than max calls have been made
CallOn(documents, max) ==
    /\ pc \in {"idle", "done"}
    /\ calls < max
    /\ \E d \in 1..Len(documents) : input' = documents[d]
    /\ pc' = "called"
    /\ calls' = calls + 1
    /\ html' = <<>> /\ frontMatter' = Null /\ markdown' = <<>> /\ result' = <<>>
    /\ trace' = <<>>
    /\ failedStep' = "none"
    /\ UNCHANGED <<serviceVars, pending, desc, paragraph, recentErrors, postVars, tableVars,
                   processVars>>

Call == CallOn(Documents, MaxCalls)

\* lines 551-553: if (!html || html.trim() === '') return ''
Enter ==
    /\ pc = "called"
    /\ IF Trim(Chars(input)) = <<>>
       THEN pc' = "done" /\ result' = <<>>
       ELSE pc' = "extractFrontMatter" /\ result' = result
    /\ UNCHANGED <<serviceVars, input, html, frontMatter, markdown, trace, calls,
                   loopVars, recentErrors, postVars, tableVars, processVars>>

\* line 556
ExtractFrontMatter ==
    /\ pc = "extractFrontMatter"
    /\ LET r == extractFrontMatter(input, opts.preserveFrontMatter)
       IN  html' = r.html /\ frontMatter' = r.frontMatter
    /\ pc' = StageAfter(pc, opts.processComplexStructures)
    /\ trace' = Append(trace, pc)
    /\ UNCHANGED <<serviceVars, input, markdown, result, calls,
                   loopVars, recentErrors, postVars, tableVars, processVars>>

\* line 559: this._preservedContent = new Map(), whatever the map held
\* the map kept as it is
KeepMap(old) == old

NewMap(old) == <<>>

\* lines 559-560
PreserveSpecialContent ==
    /\ pc = "preserveSpecialContent"
    /\ \E throws \in BOOLEAN :
          IF html = <<>>
          THEN html' = <<>> /\ preserved' = NewMap(preserved) /\ recentErrors' = recentErrors
          ELSE IF throws
          THEN /\ html' = html
               /\ preserved' = NewMap(preserved)
               /\ recentErrors' = logError(recentErrors, MARKDOWN_CONVERSION,
                                           "Failed to preserve special content")
          ELSE /\ html' = preserveSpecialContent(html).html
               /\ preserved' = preserveSpecialContent(html).preserved
               /\ recentErrors' = recentErrors
    /\ pc' = StageAfter(pc, opts.processComplexStructures)
    /\ trace' = Append(trace, pc)
    /\ UNCHANGED <<opts, input, frontMatter, markdown, result, calls,
                   loopVars, postVars, tableVars, processVars>>

\* the term and description pairs the loops of lines 286-311 reach
PairsOf(h) == AllPairs(ByName(ParseHtml(h).kids, {"dl"}), 1)

\* line 563 up to the first test of the loop of lines 300-302
HandleUnusualStructures ==
    /\ pc = "handleUnusualStructures"
    /\ trace' = Append(trace, pc)
    /\ \E throws \in {"none", "container"} \cup FailingSteps(html, PairsOf(html) = <<>>) :
          IF html = <<>> \/ (throws = "none" /\ PairsOf(html) = <<>>)
          THEN /\ html' = handleUnusualStructures(html)
               /\ pc' = StageAfter(pc, opts.processComplexStructures)
               /\ failedStep' = "none"
               /\ UNCHANGED <<pending, desc, paragraph, recentErrors>>
          ELSE IF throws # "none"
          THEN /\ recentErrors' = logError(recentErrors, MARKDOWN_CONVERSION,
                                           "Failed to process unusual HTML structures")
               /\ pc' = StageAfter(pc, opts.processComplexStructures)
               /\ failedStep' = throws
               /\ UNCHANGED <<html, pending, desc, paragraph>>
          ELSE /\ pending' = PairsOf(html)
               /\ desc' = PairsOf(html)[1].desc.kids
               /\ paragraph' = TermParagraph(PairsOf(html)[1].term, <<>>).kids
               /\ pc' = "copy_test"
               /\ failedStep' = "none"
               /\ UNCHANGED <<html, recentErrors>>
    /\ UNCHANGED <<serviceVars, input, frontMatter, markdown, result, calls,
                   postVars, tableVars, processVars>>

\* line 300: while (desc.firstChild); when it is null the loops go on to the
\* next pair, and the rest of the method runs after the last one
CopyTest ==
    /\ pc = "copy_test"
    /\ IF desc # <<>>
       THEN pc' = "copy_body" /\ UNCHANGED loopVars
       ELSE IF Len(pending) > 1
       THEN /\ pending' = Tail(pending)
            /\ desc' = pending[2].desc.kids
            /\ paragraph' = TermParagraph(pending[2].term, <<>>).kids
            /\ pc' = pc
            /\ UNCHANGED failedStep
       ELSE /\ pc' = "copied"
            /\ pending' = <<>> /\ desc' = <<>> /\ paragraph' = <<>>
            /\ UNCHANGED failedStep
    /\ UNCHANGED <<serviceVars, input, html, frontMatter, markdown, result, trace, calls,
                   recentErrors, postVars, tableVars, processVars>>

\* lines 304-541, once every loop of lines 300-302 has reached its exit
FinishUnusualStructures ==
    /\ pc = "copied"
    /\ html' = handleUnusualStructures(html)
    /\ pc' = StageAfter("handleUnusualStructures", opts.processComplexStructures)
    /\ UNCHANGED <<serviceVars, input, frontMatter, markdown, result, trace, calls,
                   loopVars, recentErrors, postVars, tableVars, processVars>>

\* line 301: paragraph.appendChild(desc.firstChild.cloneNode(true)); the
\* child stays in desc
CopyBody ==
    /\ pc = "copy_body"
    /\ paragraph' = IF Len(paragraph) < MaxCopies + 2
                    THEN paragraph \o CloneNodes(<<desc[1]>>)
                    ELSE paragraph
    /\ pc' = "copy_test"
    /\ UNCHANGED <<serviceVars, input, html, frontMatter, markdown, result, trace, calls,
                   pending, desc, failedStep, recentErrors, postVars, tableVars,
                   processVars>>

\* lines 566-568
PreProcessComplexStructures ==
    /\ pc = "preProcessComplexStructures"
    /\ \E throws \in BOOLEAN :
          IF throws
          THEN /\ html' = html
               /\ recentErrors' = logError(recentErrors, MARKDOWN_CONVERSION,
                                           "Failed to pre-process complex structures")
          ELSE /\ html' = preProcessComplexStructures(html)
               /\ recentErrors' = recentErrors
    /\ pc' = StageAfter(pc, opts.processComplexStructures)
    /\ trace' = Append(trace, pc)
    /\ UNCHANGED <<serviceVars, input, frontMatter, markdown, result, calls,
                   loopVars, postVars, tableVars, processVars>>

\* lines 587-595: the catch clause of convertToMarkdown
Catch ==
    /\ recentErrors' = logError(recentErrors, MARKDOWN_CONVERSION,
                                "Failed to convert HTML to Markdown")
    /\ result' = ConversionFailed(input)
    /\ trace' = trace \o <<pc, "catch">>
    /\ pc' = "done"

\* line 572: this.turndownService.turndown(processedHtml)
Turndown ==
    /\ pc = "turndown"
    /\ \E throws \in BOOLEAN :
          IF throws
          THEN Catch /\ markdown' = markdown
          ELSE /\ markdown' = turndown(html)
               /\ trace' = Append(trace, pc)
               /\ pc' = StageAfter(pc, opts.processComplexStructures)
               /\ UNCHANGED <<result, recentErrors>>
    /\ UNCHANGED <<serviceVars, input, html, frontMatter, calls,
                   loopVars, postVars, tableVars, processVars>>

\* an entry whose restoration parses its value into an element
IsSpecialEntry(entry) == StartsAt(entry.key, 1, SpecialBlockPrefix)

\* line 575; restoreSpecialContent has no try of its own
RestoreSpecialContent ==
    /\ pc = "restoreSpecialContent"
    /\ \E throws \in BOOLEAN :
          IF /\ throws
             /\ markdown # <<>>
             /\ \E k \in 1..Len(preserved) : IsSpecialEntry(preserved[k])
          THEN Catch /\ UNCHANGED <<markdown, preserved>>
          ELSE /\ markdown' = restoreSpecialContent(markdown, preserved).markdown
               /\ preserved' = restoreSpecialContent(markdown, preserved).preserved
               /\ trace' = Append(trace, pc)
               /\ pc' = StageAfter(pc, opts.processComplexStructures)
               /\ UNCHANGED <<result, recentErrors>>
    /\ UNCHANGED <<opts, input, html, frontMatter, calls, loopVars, postVars, tableVars, processVars>>

\* line 578
PostProcessMarkdown ==
    /\ pc = "postProcessMarkdown"
    /\ markdown' = postProcessMarkdown(markdown)
    /\ pc' = StageAfter(pc, opts.processComplexStructures)
    /\ trace' = Append(trace, pc)
    /\ UNCHANGED <<serviceVars, input, html, frontMatter, result, calls,
                   loopVars, recentErrors, postVars, tableVars, processVars>>

\* lines 581-585
Return ==
    /\ pc = "attachFrontMatter"
    /\ result' = AttachFrontMatter(frontMatter, markdown)
    /\ pc' = "done"
    /\ trace' = Append(trace, pc)
    /\ UNCHANGED <<serviceVars, input, html, frontMatter, markdown, calls,
                   loopVars, recentErrors, postVars, tableVars, processVars>>

Next ==
    \/ Call
    \/ Enter
    \/ ExtractFrontMatter
    \/ PreserveSpecialContent
    \/ HandleUnusualStructures
    \/ CopyTest
    \/ CopyBody
    \/ FinishUnusualStructures
    \/ PreProcessComplexStructures
    \/ Turndown
    \/ RestoreSpecialContent
    \/ PostProcessMarkdown
    \/ Return

Spec == Init /\ [][Next]_vars

\* the loop of lines 300-302 takes its next step
FairSpec == Spec /\ WF_vars(CopyTest) /\ WF_vars(CopyBody)

\* the elements of a sequence
Range(seq) == {seq[k] : k \in 1..Len(seq)}

\* the stages the call has entered, without the mark of the catch clause
StagesRun == SelectSeq(trace, LAMBDA stage : stage # "catch")
IsPrefix(a, b) == Len(a) <= Len(b) /\ a = Sub(b, 1, Len(a))

\* the call has returned from the catch clause
Caught == pc = "done" /\ "catch" \in Range(trace)
\* the call has returned from line 583 or line 585
Returned == pc = "done" /\ "attachFrontMatter" \in Range(trace)

FailureLog ==
    [category |-> MARKDOWN_CONVERSION, message |-> "Failed to convert HTML to Markdown"]

\* C1: a call returns a string for every input, the empty string for an
\* empty or whitespace-only one; when a stage throws past its own handler the
\* call logs the failure once, under the category markdown-conversion, and
\* returns the failure notice followed by the input as it was given
C1_FallbackOnFailure ==
    [][(pc # "done" /\ pc' = "done") =>
          /\ Trim(Chars(input)) = <<>> => result' = <<>> /\ recentErrors' = recentErrors
          /\ "catch" \in Range(trace') =>
                /\ result' = FailureNotice \o Chars(input)
                /\ recentErrors' = Append(recentErrors, FailureLog)
          /\ "catch" \notin Range(trace') => recentErrors' = recentErrors]_vars

C1_Witness == Caught /\ Len(input) > 0 /\ FailureLog \in Range(recentErrors)

\* C2: every call of convertToMarkdown returns; the loop that copies the
\* child nodes of a dd into the paragraph of its term reaches its exit
C2_CopyLoopExits == (pc = "copy_test") ~> (pc \notin {"copy_test", "copy_body"})

\* the order of the stages in convertToMarkdown
StageOrder(processComplexStructures) ==
    <<"extractFrontMatter", "preserveSpecialContent", "handleUnusualStructures">>
    \o (IF processComplexStructures THEN <<"preProcessComplexStructures">> ELSE <<>>)
    \o <<"turndown", "restoreSpecialContent", "postProcessMarkdown", "attachFrontMatter">>

\* the order of the stages as described: normalizer, rewriter, extraction
DescribedOrder ==
    <<"extractFrontMatter", "preProcessComplexStructures", "handleUnusualStructures",
      "preserveSpecialContent", "turndown", "restoreSpecialContent",
      "postProcessMarkdown", "attachFrontMatter">>

\* C3 (as amended): the stages of a conversion run in this order: front
\* matter extraction, special content extraction, the unusual-structure
\* rewriter, the structure normalizer when processComplexStructures is set,
\* the tree converter, special content restoration, the post-processor, front
\* matter reattachment; a call that returns normally has run them all
C3_StagesInOrder ==
    /\ IsPrefix(StagesRun, StageOrder(opts.processComplexStructures))
    /\ Returned => StagesRun = StageOrder(opts.processComplexStructures)

C3_Witness == Returned /\ opts.processComplexStructures /\ Len(trace) = 8

\* C3 (as stated): the stages run in the order structure normalizer,
\* unusual-structure rewriter, special content extraction, tree converter,
\* restoration, post-processor, between front matter extraction and
\* reattachment
C3_DescribedOrder == IsPrefix(StagesRun, DescribedOrder)

\* the inline math expressions of a string: the matches of /\$([^$]+)\$/g
InlineMath(cs) ==
    LET ml == [i \in 1..Len(cs) |-> InlineMathLen(cs, i)]
        starts == MatchStarts(ml, 1)
    IN  {Sub(cs, starts[k], starts[k] + ml[starts[k]] - 1) : k \in 1..Len(starts)}

\* C5: when nothing throws, the returned string contains every inline math
\* expression of the input unchanged
C5_InlineMathKept ==
    (Returned /\ recentErrors = <<>>) =>
        \A m \in InlineMath(Chars(input)) : Contains(result, m)

\* C6: when preserveSpecialContent returns, every token it has recorded
\* occurs exactly once in the string it returns, and the text recorded for a
\* math expression or a special block no longer occurs there
C6_TokensInHtml ==
    (pc = "handleUnusualStructures" /\ recentErrors = <<>>) =>
        \A k \in 1..Len(preserved) :
            /\ Occurrences(Chars(html), preserved[k].key) = 1
            /\ ~StartsAt(preserved[k].key, 1, CommentPrefix)
                  => ~Contains(Chars(html), Chars(preserved[k].value))

\* C7: the tokens of one conversion are pairwise distinct and none is a
\* substring of another
C7_TokensApart ==
    \A i, j \in 1..Len(preserved) :
        i # j => ~Contains(preserved[j].key, preserved[i].key)

\* C8: once restoreSpecialContent has run, the Placeholder Map is empty
C8_MapCleared ==
    ("restoreSpecialContent" \in Range(trace) /\ "catch" \notin Range(trace)) =>
        preserved = <<>>

\* C9: with preserveFrontMatter set and a front matter block in the input,
\* the block is out of the HTML the stages work on, and the returned string
\* is '---\n', the front matter, '\n---\n\n' and the converted Markdown
C9_FrontMatterAttached ==
    (opts.preserveFrontMatter /\ FrontMatterMatch(Chars(input)).found) =>
        /\ "extractFrontMatter" \in Range(trace) => ~FrontMatterMatch(Chars(html)).found
        /\ Returned =>
              result = <<"-", "-", "-", "\n">> \o Trim(FrontMatterMatch(Chars(input)).body)
                       \o <<"\n", "-", "-", "-", "\n", "\n">> \o markdown

\* the call has returned and no stage has logged a failure
Converted == Returned /\ recentErrors = <<>>

\* the lines of a Markdown string
RECURSIVE Lines(_)
Lines(md) ==
    LET r == RunNotIn(md, 1, {"\n"})
    IN  IF r = Len(md) THEN <<md>>
        ELSE <<Sub(md, 1, r)>> \o Lines(Sub(md, r + 2, Len(md)))

\* an alignment row of n segments, and whether a line is one
AlignmentRow(n) == <<"|">> \o Times(<<" ", "-", "-", "-", " ", "|">>, n)
Segments(line) == (Len(line) - 1) \div 6
IsAlignmentRow(line) == Len(line) >= 7 /\ line = AlignmentRow(Segments(line))

\* the cells of the first row of a document that is one table, and whether
\* that row is a header row: a row that has a th cell
FirstRowCells(h) ==
    LET rows == QuerySelectorAll(ParseHtml(h).kids, LAMBDA n : n.name = "tr")
    IN  IF rows = <<>> THEN <<>>
        ELSE QuerySelectorAll(rows[1].kids, LAMBDA n : n.name \in {"th", "td"})
HasHeaderRow(h) == \E k \in 1..Len(FirstRowCells(h)) : FirstRowCells(h)[k].name = "th"

\* C11: the output for a table whose header row has N columns has exactly
\* one alignment row, that row has N segments, and it is the line directly
\* after the header row
C11_AlignmentRow ==
    (Converted /\ HasHeaderRow(input)) =>
        LET lines == Lines(result)
        IN  /\ {k \in 1..Len(lines) : IsAlignmentRow(lines[k])} = {2}
            /\ Segments(lines[2]) = Len(FirstRowCells(input))

\* C12: the output for <p>Hello <b>world</b></p> contains 'Hello **world**'
C12_StrongKept ==
    (Converted /\ input = StrongDocument) =>
        Contains(result, <<"H", "e", "l", "l", "o", " ", "*", "*",
                           "w", "o", "r", "l", "d", "*", "*">>)

\* C13: the output for <pre><code class="language-js">let x=1;</code></pre>
\* is the three lines of the fence with the tag js, the code, and the fence
C13_FencedVerbatim ==
    (Converted /\ input = CodeDocument) =>
        Lines(result) = <<Fence \o <<"j", "s">>,
                          <<"l", "e", "t", " ", "x", "=", "1", ";">>,
                          Fence>>

\* handleUnusualStructures has returned what it made of the HTML, and no
\* stage has failed
Rewritten ==
    /\ trace # <<>>
    /\ trace[Len(trace)] = "handleUnusualStructures"
    /\ pc \in {"preProcessComplexStructures", "turndown"}
    /\ recentErrors = <<>>

\* C14: the rewriter leaves one paragraph for every dt of a definition
\* list, also for a dt that no dd follows, and no dt and no dd
C14_ParagraphPerTerm ==
    (Rewritten /\ ByName(ParseHtml(input).kids, {"dl"}) # <<>>) =>
        /\ Len(ByName(ParseHtml(html).kids, {"p"}))
              = Len(ByName(ParseHtml(input).kids, {"dt"}))
        /\ ByName(ParseHtml(html).kids, {"dt", "dd"}) = <<>>

\* C15: the output for <ul><li><input type="checkbox" checked> Done</li></ul>
\* contains '- [x] Done': the prefix, then the content of the item
C15_TaskPrefix ==
    (Converted /\ input = TaskDocument) =>
        Contains(result, <<"-", " ", "[", "x", "]", " ", "D", "o", "n", "e">>)

\* C16: in the output for an unordered list nested three levels deep, the
\* marker of the item at depth d is indented by 2 * d spaces
C16_DepthIndent ==
    (Converted /\ input = NestedDocument) =>
        /\ Len(Lines(result)) = 3
        /\ \A d \in 0..2 :
              LET line == Lines(result)[d + 1]
              IN  RunIn(line, 1, {" "}) = 2 * d /\ StartsAt(line, 2 * d + 1, <<"-", " ">>)

\* C18: the output for an image that has a width carries the ' =WxH'
\* suffix exactly when the service was built with preserveImageSize set
C18_SizeSuffix ==
    (Converted /\ input = ImageDocument) =>
        (Contains(result, <<" ", "=", "2", "x">>) <=> opts.preserveImageSize)

\* C20: with preserveTableAlignment set, the output for a th annotated
\* data-align="right" carries the marker of that alignment, 'A:'
C20_AlignedCellRule ==
    (Converted /\ input = AlignedDocument /\ opts.preserveTableAlignment) =>
        Contains(result, <<"A", ":">>)

\* C17: on a service built with processComplexStructures false, neither
\* the step of handleUnusualStructures nor a step of
\* preProcessComplexStructures changes the document
C17_OptionGatesRewrites ==
    [][(/\ ~opts.processComplexStructures
        /\ pc \in {"handleUnusualStructures", "copied", "preProcessComplexStructures"})
       => ParseHtml(html').kids = ParseHtml(html).kids]_vars

\* the normalizer has just returned its result and nothing has failed
PreProcessed ==
    /\ trace # <<>> /\ trace[Len(trace)] = "preProcessComplexStructures"
    /\ recentErrors = <<>>

\* the number of ancestors of the element that have one of the names
RECURSIVE AncestorCount(_, _, _)
AncestorCount(root, id, names) ==
    LET pid == ParentId(root, id)
    IN  IF pid = root.id THEN 0
        ELSE AncestorCount(root, pid, names)
             + (IF NodeById(root.kids, pid).name \in names THEN 1 ELSE 0)

\* every ul and ol element of the document carries its depth as data-list-level
LevelsMarked(h) ==
    LET root == ElementNode(0, "div", {}, ParseHtml(h).kids)
        lists == ByName(root.kids, {"ul", "ol"})
    IN  \A k \in 1..Len(lists) :
           /\ HasAttr(lists[k].attrs, "data-list-level")
           /\ Attr(lists[k].attrs, "data-list-level")
                = LevelString(AncestorCount(root, lists[k].id, {"ul", "ol"}))

\* C22: after preProcessComplexStructures every ul and ol element carries a
\* data-list-level equal to the number of its ul and ol ancestors, also when
\* the nested list sits in a wrapper element or directly inside another list
C22_ListLevels == PreProcessed => LevelsMarked(html)

\* preserveSpecialContent has just returned and nothing has failed
Extracted == pc = "handleUnusualStructures" /\ recentErrors = <<>>

\* C24: the extraction passes are independent: a block math expression
\* $$E$$ of the input gives exactly one entry of the Placeholder Map, under
\* a block-math token, whose value is the full text $$E$$
C24_BlockMathEntry ==
    (Extracted /\ input = BlockMathDocument) =>
        /\ Len(preserved) = 1
        /\ IsPrefix(MathBlockPrefix, preserved[1].key)
        /\ Chars(preserved[1].value) = <<"$", "$", "E", "$", "$">>

\* C25: a pre element with class mermaid, math or graphviz, or with a
\* data-preserve attribute, appears in the output of convertToMarkdown as a
\* fenced code block whose body is the text of the pre and whose tag is the
\* detected class: its token passes through tree conversion unchanged and is
\* replaced at restoration
C25_SpecialBlockFenced ==
    (Converted /\ input = MermaidDocument) =>
        Contains(result, Fence \o <<"m", "e", "r", "m", "a", "i", "d", "\n", "g", "\n">> \o Fence)

\* the wrappers the rewriter puts in the place of media elements
MediaWrappers(tree) ==
    QuerySelectorAll(tree, LAMBDA n :
        n.name = "div" /\ Attr(n.attrs, "class") \in {"embedded-content", "video-content",
                                                       "audio-content"})

\* C26: after the unusual-structure rewrite no iframe, video or audio
\* element remains, and none has been replaced by an empty wrapper: each is
\* replaced by a link to its URL or by a note that the content is unavailable
C26_MediaReplaced ==
    Rewritten =>
        LET tree == ParseHtml(html).kids
        IN  /\ ByName(tree, {"iframe", "video", "audio"}) = <<>>
            /\ \A k \in 1..Len(MediaWrappers(tree)) : MediaWrappers(tree)[k].kids # <<>>

\* C27: a failure inside one rewrite step of handleUnusualStructures is
\* contained to its substructure: the rewrites the earlier steps have applied
\* to other substructures are in the HTML handed to the next stage, and the
\* call goes on to convert instead of taking the failure fallback
C27_FailureContained ==
    [][(pc = "handleUnusualStructures" /\ failedStep' \in Range(RewriteSteps)) =>
          /\ pc' = StageAfter(pc, opts.processComplexStructures)
          /\ html' = SerializeNodes(RewriteFrom(ParseHtml(html).kids, 1,
                                                StepIndex(failedStep') - 1))]_vars

PostIdle == ppIn = <<>> /\ ppOut = <<>>
TableIdle == table = <<>> /\ tableIn = <<>> /\ tablePc = "idle" /\ computedStyle = <<>>
ProcessIdle ==
    /\ heap = <<>> /\ element = 0 /\ elementIn = <<>> /\ clone = 0 /\ returned = 0
    /\ processPc = "idle"

(***************************************************************************)
(* postProcessMarkdown on its own: every string of at most MaxLen          *)
(* characters of PostAlphabet and the strings of PostSamples,              *)
(* post-processed, and the result post-processed again.                    *)
(***************************************************************************)
PostAlphabet == {"a", "*", " ", "\n", "-"}

\* an ordered list whose items all carry the number 1
AllOnesList == <<"1", ".", " ", "a", "\n", "1", ".", " ", "b", "\n", "1", ".", " ", "c">>
\* an ordered list that starts at 5
FromFiveList == <<"5", ".", " ", "a", "\n", "5", ".", " ", "b">>
\* an ordered list after a paragraph line
ListAfterText == <<"a", "\n", "1", ".", " ", "x", "\n", "1", ".", " ", "y">>
\* a horizontal rule after a blank line
RuleAfterBlank == <<"a", "\n", "\n", "-", "-", "-", "\n", "b">>
\* a horizontal rule between two lines
RuleBetweenLines == <<"a", "\n", "-", "-", "-", "\n", "b">>

PostSamples == {AllOnesList, FromFiveList, ListAfterText, RuleAfterBlank, RuleBetweenLines}

StringsUpTo(A, n) == UNION {[1..k -> A] : k \in 0..n}

InitPost ==
    /\ opts = DEFAULT_MARKDOWN_OPTIONS
    /\ ServiceIdle
    /\ TableIdle
    /\ ProcessIdle
    /\ ppIn \in StringsUpTo(PostAlphabet, MaxLen) \cup PostSamples
    /\ ppOut = <<>>

\* cleaned = this.postProcessMarkdown(x), then this.postProcessMarkdown(cleaned)
PostProcess ==
    /\ Len(ppOut) < 2
    /\ ppOut' = Append(ppOut, postProcessMarkdown(IF ppOut = <<>> THEN ppIn
                                                   ELSE ppOut[Len(ppOut)]))
    /\ UNCHANGED <<serviceVars, callVars, loopVars, recentErrors, ppIn, tableVars, processVars>>

NextPost == PostProcess
SpecPost == InitPost /\ [][NextPost]_vars

(***************************************************************************)
(* processTableAlignments applied on its own to a table whose cells carry  *)
(* a legacy align attribute or none, under every style the environment     *)
(* can resolve for them.                                                   *)
(***************************************************************************)
MaxCells == 2

RECURSIVE Flatten(_)
Flatten(seqs) == IF seqs = <<>> THEN <<>> ELSE Head(seqs) \o Flatten(Tail(seqs))

\* values of the align attribute; "" stands for a cell that has none
AlignValues == {"", "left", "center", "right", "justify"}

\* values of the resolved text-align; "" is what an unstyled cell gives
TextAligns == {"", "start", "left", "center", "right"}

\* a table of one row whose k-th cell carries align value aligns[k]
AlignTable(aligns) ==
    LET cells == [k \in 1..Len(aligns) |->
                     Element("td", IF aligns[k] = "" THEN {} ELSE {<<"align", aligns[k]>>},
                             Text(ToDigits(k)))]
        s == Element("table", {}, Element("tbody", {}, Element("tr", {}, Flatten(cells))))
    IN  Renumber(ParseNodes(s, Chars(s), 1, 1).nodes)[1]

\* table.querySelectorAll('th, td')
CellsOf(t) == ByName(t.kids, {"th", "td"})

\* the style that resolves styles[k] for the k-th cell of t
StyleOf(t, styles) ==
    [id \in {CellsOf(t)[k].id : k \in 1..Len(CellsOf(t))} |->
        styles[CHOOSE k \in 1..Len(CellsOf(t)) : CellsOf(t)[k].id = id]]

InitAlign ==
    /\ opts = DEFAULT_MARKDOWN_OPTIONS
    /\ ServiceIdle
    /\ PostIdle
    /\ ProcessIdle
    /\ \E n \in 1..MaxCells :
         \E aligns \in [1..n -> AlignValues], styles \in [1..n -> TextAligns] :
            /\ tableIn = AlignTable(aligns)
            /\ computedStyle = StyleOf(AlignTable(aligns), styles)
    /\ table = tableIn
    /\ tablePc = "idle"

\* processTableAlignments(table)
AlignCells ==
    /\ tablePc = "idle"
    /\ table' = [table EXCEPT !.kids = processTableAlignments(@, computedStyle)]
    /\ tablePc' = "aligned"
    /\ UNCHANGED <<serviceVars, callVars, loopVars, recentErrors, postVars, tableIn,
                   computedStyle, processVars>>

NextAlign == AlignCells
SpecAlign == InitAlign /\ [][NextAlign]_vars

\* C21: after processTableAlignments the data-align annotation of a cell,
\* when present, is left, center or right; an alignment from the resolved
\* text-align style wins over the align attribute; and a cell with no such
\* style and no align attribute of one of the three values has no annotation
C21_AlignmentAnnotation ==
    tablePc = "aligned" =>
        \A k \in 1..Len(CellsOf(table)) :
            LET cell == CellsOf(table)[k]
                before == CellsOf(tableIn)[k]
                textAlign == ComputedTextAlign(computedStyle, before)
                known == {"left", "center", "right"}
            IN  /\ HasAttr(cell.attrs, "data-align") => Attr(cell.attrs, "data-align") \in known
                /\ textAlign \in known => Attr(cell.attrs, "data-align") = textAlign
                /\ (textAlign \notin known /\ Attr(before.attrs, "align") \notin known)
                      => ~HasAttr(cell.attrs, "data-align")

(***************************************************************************)
(* normalizeTableStructure applied on its own to a table element.          *)
(***************************************************************************)
\* the row elements of a table, row k holding one cell of kind kinds[k]
\* whose text is the number k
RowStrings(kinds) ==
    [k \in 1..Len(kinds) |-> Element("tr", {}, Element(kinds[k], {}, Text(ToDigits(k))))]

\* a table element: its rows directly in the table, all in a tbody, or the
\* first in a thead and the others in a tbody
TableElement(kinds, sections) ==
    LET rows == RowStrings(kinds)
        inner == CASE sections = "none" -> Flatten(rows)
                   [] sections = "tbody" -> Element("tbody", {}, Flatten(rows))
                   [] OTHER -> Element("thead", {}, Flatten(Sub(rows, 1, Min(1, Len(rows)))))
                               \o Element("tbody", {}, Flatten(Sub(rows, 2, Len(rows))))
        s == Element("table", {}, inner)
    IN  Renumber(ParseNodes(s, Chars(s), 1, 1).nodes)[1]

InitTable ==
    /\ opts = DEFAULT_MARKDOWN_OPTIONS
    /\ ServiceIdle
    /\ PostIdle
    /\ ProcessIdle
    /\ \E n \in 0..MaxRows :
         \E kinds \in [1..n -> {"th", "td"}] :
           \E sections \in {"none", "tbody", "thead"} :
              tableIn = TableElement(kinds, sections)
    /\ table = tableIn
    /\ tablePc = "idle"
    /\ computedStyle = <<>>

\* normalizeTableStructure(table)
NormalizeTable ==
    /\ tablePc = "idle"
    /\ table' = normalizeTableStructure(table)
    /\ tablePc' = "done"
    /\ UNCHANGED <<serviceVars, callVars, loopVars, recentErrors, postVars, tableIn,
                   computedStyle, processVars>>

NextTable == NormalizeTable
SpecTable == InitTable /\ [][NextTable]_vars

(***************************************************************************)
(* processTable, processNestedList, processDefinitionList and              *)
(* processBlockquote (complexStructureService.ts) applied on their own to  *)
(* an element the caller holds.  Elements are held by reference: heap[r]   *)
(* is the subtree of the element r, and a statement that changes an        *)
(* element changes the subtree of its reference.                           *)
(***************************************************************************)
\* the elements the functions are called with
ProcessInputs ==
    {TableElement(kinds, sections) :
        kinds \in UNION {[1..n -> {"th", "td"}] : n \in 0..MaxRows},
        sections \in {"none", "tbody", "thead"}}
    \cup {ParseHtml(h).kids[1] :
            h \in {NestedDocument,
                   Element("table", {},
                       Element("tr", {}, Element("td", {<<"align", "center">>},
                                                 Text(<<"1">>)))),
                   Element("ol", {}, Element("li", {}, Text(<<"a">>))),
                   Element("dl", {}, Element("dt", {}, Text(<<"T">>))
                                     \o Element("dd", {}, Text(<<"D">>))),
                   Element("blockquote", {}, Text(<<"q">>)
                       \o Element("blockquote", {}, Text(<<"r">>)))}}

\* the reference itself: no copy is made
SameNode(h, ref) == ref
\* element.cloneNode(true): the reference of the copy, a new element
CloneNode(h, ref) == Len(h) + 1

\* the heap with the subtree of a reference set
Store(h, ref, value) == IF ref > Len(h) THEN Append(h, value) ELSE [h EXCEPT ![ref] = value]

\* the statements that follow the clone, up to line 38, 184, 246 or 273
Mutation(e) ==
    CASE e.name = "table" -> normalizeTableStructure(e)
      [] e.name \in {"ul", "ol"} -> markNestedLevels(e, 0)
      [] e.name = "dl" -> [e EXCEPT !.kids = MarkDefinitions(@)]
      [] OTHER -> markNestedBlockquotes(e, 0)

\* processTable, lines 41-48
TableAttributes(t, options) ==
    Then(IF options.alignCells THEN [t EXCEPT !.kids = processTableAlignments(@, DetachedStyle)] ELSE t,
         LAMBDA aligned :
         IF ~options.preserveTableClasses
         THEN [aligned EXCEPT !.kids = cleanupTableAttributes(@)]
         ELSE aligned)

\* the message of the catch clause of each function
FailureMessage(name) ==
    CASE name = "table" -> "Failed to process complex table"
      [] name \in {"ul", "ol"} -> "Failed to process nested list"
      [] name = "dl" -> "Failed to process definition list"
      [] OTHER -> "Failed to process blockquote"

InitProcess ==
    /\ opts = DEFAULT_MARKDOWN_OPTIONS
    /\ ServiceIdle
    /\ PostIdle
    /\ TableIdle
    /\ elementIn \in ProcessInputs
    /\ heap = <<elementIn>>
    /\ element = 1
    /\ clone = 0
    /\ returned = 0
    /\ processPc = "clone"

\* the catch clause: the failure is logged and the argument returned
ProcessFailed ==
    /\ recentErrors' = logError(recentErrors, MARKDOWN_CONVERSION,
                                FailureMessage(heap[element].name))
    /\ returned' = element
    /\ processPc' = "done"
    /\ UNCHANGED <<heap, clone>>

\* const clone = element.cloneNode(true)
CloneElement ==
    /\ processPc = "clone"
    /\ \E throws \in BOOLEAN :
          IF throws THEN ProcessFailed
          ELSE /\ clone' = CloneNode(heap, element)
               /\ heap' = Store(heap, CloneNode(heap, element), heap[element])
               /\ processPc' = "mutate"
               /\ UNCHANGED <<returned, recentErrors>>
    /\ UNCHANGED <<serviceVars, callVars, loopVars, postVars, tableVars, element, elementIn>>

\* normalizeTableStructure(tableClone), markNestedLevels(listClone), the
\* two forEach of processDefinitionList, markNestedBlockquotes(bqClone)
MutateClone ==
    /\ processPc = "mutate"
    /\ \E throws \in BOOLEAN :
          IF throws THEN ProcessFailed
          ELSE /\ heap' = [heap EXCEPT ![clone] = Mutation(@)]
               /\ processPc' = IF heap[clone].name = "table" THEN "attributes" ELSE "return"
               /\ UNCHANGED <<clone, returned, recentErrors>>
    /\ UNCHANGED <<serviceVars, callVars, loopVars, postVars, tableVars, element, elementIn>>

\* processTable, lines 41-48, with the default table options
SetAttributes ==
    /\ processPc = "attributes"
    /\ \E throws \in BOOLEAN :
          IF throws THEN ProcessFailed
          ELSE /\ heap' = [heap EXCEPT ![clone] = TableAttributes(@, DEFAULT_TABLE_OPTIONS)]
               /\ processPc' = "return"
               /\ UNCHANGED <<clone, returned, recentErrors>>
    /\ UNCHANGED <<serviceVars, callVars, loopVars, postVars, tableVars, element, elementIn>>

\* return clone
ReturnClone ==
    /\ processPc = "return"
    /\ returned' = clone
    /\ processPc' = "done"
    /\ UNCHANGED <<serviceVars, callVars, loopVars, recentErrors, postVars, tableVars,
                   heap, element, elementIn, clone>>

NextProcess ==
    \/ CloneElement
    \/ MutateClone
    \/ SetAttributes
    \/ ReturnClone
SpecProcess == InitProcess /\ [][NextProcess]_vars

\* C19: the four functions leave the element passed to them as it was; when
\* nothing fails they return another element, the clone with the changes;
\* when a statement fails they log the failure and return the argument
C19_ArgumentUntouched ==
    processPc # "idle" =>
        /\ heap[element] = elementIn
        /\ processPc = "done" =>
              \/ /\ recentErrors = <<>>
                 /\ returned # element
                 /\ CloneNodes(<<heap[returned]>>)[1] = Processed(elementIn)
              \/ /\ recentErrors = <<[category |-> MARKDOWN_CONVERSION,
                                      message |-> FailureMessage(elementIn.name)]>>
                 /\ returned = element

\* a function has returned a clone that differs from its argument
C19_Witness ==
    /\ processPc = "done"
    /\ recentErrors = <<>>
    /\ returned # element
    /\ CloneNodes(<<heap[returned]>>) # CloneNodes(<<elementIn>>)

\* the texts of the rows under a node, in document order
RowTexts(node) ==
    LET rows == ByName(node.kids, {"tr"})
    IN  [k \in 1..Len(rows) |-> TextContentOf(<<rows[k]>>)]

\* C10: after normalizeTableStructure on a table with at least one row the
\* table has exactly one thead and exactly one tbody, and its rows are the
\* rows of the input, none duplicated and none lost: the first in the thead,
\* the others in the tbody in their order
C10_RowsKept ==
    (tablePc = "done" /\ RowTexts(tableIn) # <<>>) =>
        /\ Len(ByName(table.kids, {"thead"})) = 1
        /\ Len(ByName(table.kids, {"tbody"})) = 1
        /\ RowTexts(table) = RowTexts(tableIn)
        /\ RowTexts(ByName(table.kids, {"thead"})[1]) = Sub(RowTexts(tableIn), 1, 1)
        /\ RowTexts(ByName(table.kids, {"tbody"})[1])
              = Sub(RowTexts(tableIn), 2, Len(RowTexts(tableIn)))

\* C23: for a table with zero rows normalizeTableStructure is a no-op: the
\* table afterwards has the children and sections it had
C23_EmptyTableUntouched ==
    (tablePc = "done" /\ RowTexts(tableIn) = <<>>) => table.kids = tableIn.kids

\* the number of the 'N. ' marker a line starts with, -1 when it starts with none
MarkerNumber(line) ==
    LET d == RunIn(line, 1, DigitSet)
    IN  IF d >= 1 /\ d + 2 <= Len(line) /\ line[d + 1] = "." /\ line[d + 2] = " "
        THEN ParseInt(Sub(line, 1, d)) ELSE -1

\* C28: in the output of postProcessMarkdown the numbers within every
\* maximal run of consecutive lines that start with an 'N. ' marker are
\* 1, 2, 3, ... in order, whatever numbers the input lines carried
C28_RunsRenumbered ==
    Len(ppOut) >= 1 =>
        LET lines == Lines(ppOut[1])
        IN  \A k \in 1..Len(lines) :
               MarkerNumber(lines[k]) # -1 =>
                  MarkerNumber(lines[k])
                    = IF k > 1 /\ MarkerNumber(lines[k - 1]) # -1
                      THEN MarkerNumber(lines[k - 1]) + 1 ELSE 1

\* C29: the output of postProcessMarkdown never contains three or more
\* consecutive newline characters
C29_NoTripleNewline == Len(ppOut) >= 1 => ~Contains(ppOut[1], <<"\n", "\n", "\n">>)

(***************************************************************************)
(* A service that is used again: up to MaxReuse calls of convertToMarkdown *)
(* on one instance, each with one of ReuseDocuments.                       *)
(***************************************************************************)
MaxReuse == 2

\* the empty string, documents with special content, and definition lists
\* whose descriptions have a child node and have none
ReuseDocuments ==
    << <<>>, InlineMathDocument, PreserveCommentDocument, MermaidDocument,
       Element("dl", {}, Element("dt", {}, Text(<<"T">>)) \o Element("dd", {}, Text(<<"D">>))),
       Element("dl", {}, Element("dt", {}, Text(<<"T">>)) \o Element("dd", {}, <<>>)) >>

Recall == CallOn(ReuseDocuments, MaxReuse)

NextReuse ==
    \/ Recall
    \/ Enter
    \/ ExtractFrontMatter
    \/ PreserveSpecialContent
    \/ HandleUnusualStructures
    \/ CopyTest
    \/ CopyBody
    \/ FinishUnusualStructures
    \/ PreProcessComplexStructures
    \/ Turndown
    \/ RestoreSpecialContent
    \/ PostProcessMarkdown
    \/ Return

\* services built with the default options and with the normalizer off
ReuseOptions ==
    {DEFAULT_MARKDOWN_OPTIONS, [DEFAULT_MARKDOWN_OPTIONS EXCEPT !.processComplexStructures = FALSE]}

InitReuse == Init /\ opts \in ReuseOptions

SpecReuse == InitReuse /\ [][NextReuse]_vars

\* what the first call of a fresh service built with the options returns
\* for h, when it returns from line 583 or 585 and the stages whose flag is
\* set have failed into their own catch clause
FreshResult(h, failed) ==
    Then(extractFrontMatter(h, opts.preserveFrontMatter), LAMBDA fm :
    Then(IF fm.html = <<>> \/ failed.preserve THEN [html |-> fm.html, preserved |-> <<>>]
         ELSE preserveSpecialContent(fm.html), LAMBDA p :
    Then(IF failed.rewrite THEN p.html ELSE handleUnusualStructures(p.html), LAMBDA h2 :
    Then(IF opts.processComplexStructures /\ ~failed.normalize
         THEN preProcessComplexStructures(h2) ELSE h2, LAMBDA h3 :
    Then(restoreSpecialContent(turndown(h3), p.preserved).markdown, LAMBDA restored :
    AttachFrontMatter(fm.frontMatter, postProcessMarkdown(restored)))))))

\* the entries a fresh service records for h
FreshEntries(h) ==
    Then(extractFrontMatter(h, opts.preserveFrontMatter), LAMBDA fm :
         IF fm.html = <<>> THEN <<>> ELSE preserveSpecialContent(fm.html).preserved)

\* the call is between the extraction of special content and its restoration
AfterExtraction ==
    pc \in {"handleUnusualStructures", "copy_test", "copy_body", "copied",
            "preProcessComplexStructures", "turndown", "restoreSpecialContent"}

\* the returned string is the one a fresh service returns for the input
SameAsFresh ==
    pc = "done" =>
        IF Trim(Chars(input)) = <<>> THEN result = <<>>
        ELSE IF "catch" \in Range(trace) THEN result = ConversionFailed(input)
        ELSE \E p, n \in BOOLEAN :
                result = FreshResult(input, [preserve |-> p, rewrite |-> failedStep # "none",
                                             normalize |-> n])

\* the map holds no entry of an earlier conversion when a conversion reads it
NoEarlierEntry == AfterExtraction => preserved \in {<<>>, FreshEntries(input)}

\* C30: on a reused service convertToMarkdown is a function of its input and
\* the options the service was built with: after any earlier calls
\* (successful, empty-input or failed) a call returns what the first call of
\* a fresh service returns for the same input; no entry or counter value of
\* an earlier conversion is visible to a later one; and no conversion
\* changes the options
C30_ReuseIndependent ==
    /\ [](SameAsFresh /\ NoEarlierEntry)
    /\ [][opts' = opts]_vars

\* a second call has returned converted Markdown on a service whose first
\* call failed, with special content of its own
C30_Witness ==
    /\ calls = 2 /\ Returned
    /\ FailureLog \in Range(recentErrors)
    /\ input = InlineMathDocument

\* C4: postProcessMarkdown is idempotent: post-processing its own result
\* gives that result again
C4_Idempotent == Len(ppOut) = 2 => ppOut[2] = ppOut[1]

====
